---- MODULE Spec2Model ----
(***************************************************************************)
(* go-capjs: the challenge / redeem-token lifecycle of the Cap engine over *)
(* its storage drivers (SQLite and Redis), with per-IP rate limiting.      *)
(*                                                                         *)
(* Time is a discrete clock `now` counted in ticks; TicksPerSec ticks make *)
(* one second, so time.Time.Unix() is a real truncation.  Tokens drawn     *)
(* from crypto/rand are modelled as fresh identifiers.  The SQLite table   *)
(* may already hold rows when the driver is constructed over the database  *)
(* it is handed; the Redis keyspace starts empty.                          *)
(***************************************************************************)
EXTENDS Integers, Naturals, Sequences, FiniteSets, TLC

---------------------------------------------------------------------------
(* Bounds of the model *)

NProcs == 2          \* concurrent request goroutines
MaxTime == 4         \* last clock tick
MaxChallenges == 2   \* CreateChallenge calls in one behaviour
NInitRows == 2       \* cap_challenge rows present at construction
TicksPerSec == 2     \* clock resolution below one second
MaxCount == 2        \* largest ChallengeParams.Count
SaltLen == 9         \* ChallengeParams.SaltSize
SolMax == 31         \* largest solution value tried

Procs == 1..NProcs
TokenIds == 1..(NInitRows + MaxChallenges)

---------------------------------------------------------------------------
(* Values *)

NullInt == -1                \* SQL NULL in an integer column / nil *int
NullBytes == <<>>            \* SQL NULL in the ip_significant_bits column
NoTTL == -1                  \* a Redis key without expiry
NeverStored == NullInt            \* no Store of this token has returned nil

NilAddr == [ver |-> 0, bytes |-> <<>>]
Addr4a == [ver |-> 4, bytes |-> <<10, 0, 0, 1>>]
Addr4b == [ver |-> 4, bytes |-> <<10, 0, 0, 2>>]
Addr6a == [ver |-> 6, bytes |-> <<32, 1, 13, 184, 0, 0, 0, 1, 0, 0, 0, 0, 0, 0, 0, 9>>]
Addrs == {Addr4a, Addr4b, Addr6a}

\* time.Time.Unix(): whole seconds, rounded down
Unix(t) == t \div TicksPerSec

\* time.Duration of s seconds, in ticks
Seconds(s) == s * TicksPerSec

\* variant that keeps one byte more than the whole bytes of the bit count
IpToInt64RoundUp(addr, ipVSignificantBits, ipV6SignificantBits) ==
    IF addr.ver = 6
    THEN LET byteCount == ipV6SignificantBits \div 8 + 1
         IN  <<6, [i \in 1..8 |->
                     IF i - 1 < byteCount /\ i \in DOMAIN addr.bytes
                     THEN addr.bytes[i] ELSE 0]>>
    ELSE LET byteCount == ipVSignificantBits \div 8 + 1
         IN  <<4, [i \in 1..8 |->
                     IF i > 4 /\ i - 5 < byteCount /\ (i - 4) \in DOMAIN addr.bytes
                     THEN addr.bytes[i - 4] ELSE 0]>>

\* cap.IpToInt64: the 64-bit integer is kept as its 8 big-endian bytes
IpToInt64(addr, ipVSignificantBits, ipV6SignificantBits) ==
    IF addr.ver = 6
    THEN LET byteCount == ipV6SignificantBits \div 8
         IN  <<6, [i \in 1..8 |->
                     IF i - 1 < byteCount /\ i \in DOMAIN addr.bytes
                     THEN addr.bytes[i] ELSE 0]>>
    ELSE LET byteCount == ipVSignificantBits \div 8
         IN  <<4, [i \in 1..8 |->
                     IF i > 4 /\ i - 5 < byteCount /\ (i - 4) \in DOMAIN addr.bytes
                     THEN addr.bytes[i - 4] ELSE 0]>>

\* cap.RateLimitOptions as the drivers hold them (d.rlOpts; on = non-nil)
NoRateLimit == [on |-> FALSE, IPv4SignificantBits |-> 32, IPv6SignificantBits |-> 64,
                MaxChallengesPerIP |-> 0, MaxChallengesWindow |-> 0]
RateLimitChoices ==
    { NoRateLimit,
      [on |-> TRUE, IPv4SignificantBits |-> 24, IPv6SignificantBits |-> 64,
       MaxChallengesPerIP |-> 1, MaxChallengesWindow |-> Seconds(1)] }

\* ChallengeRequest.ValidDuration values tried, in ticks
ValidDurations == {-1, 3}

\* "sqlite" is the current SQLite driver, "sqlite_draft" the one of
\* sqlitedriver/driver.go, "redis" the Redis driver
Drivers == {"sqlite", "redis"}
IsSqlite(d) == d \in {"sqlite", "sqlite_draft"}

---------------------------------------------------------------------------
VARIABLES
    driver,      \* which Driver the Cap instance was built on
    rlOpts,      \* Driver.rlOpts
    now,         \* the clock, in ticks
    rows,        \* SQLite: the cap_challenge table
    chalKeys,    \* Redis: "challenge:<token>" entries
    redeemKeys,  \* Redis: "redeem:<token>" entries
    limitKeys,   \* Redis: "limit:<ver><int>" counters
    pc,          \* per goroutine: where its current call stands
    loc,         \* per goroutine: the locals of its current call
    nextTok,     \* next fresh token pair
    last,        \* observation: the Store call that returned most recently
    stored,      \* observation: per token, the Expires of the challenge stored under it
    wins,        \* observation: per redeem token, UseRedeemToken calls that returned true
    ranPending,  \* observation: redeem tokens used while their challenge was pending
    wonNotPending, \* observation: redeem tokens that returned true while not pending
    lost,        \* observation: redeem tokens refused after a use while pending
    params,      \* Cap's ChallengeParams, as the server passes them to every call
    isClosed,    \* SQLite: Driver.isClosed
    daemon,      \* SQLite: where the delExpiredDaemon goroutine stands, and its last log line
    closing,     \* SQLite: how far a call of Driver.Close has come
    calc         \* observation: the latest call of a function, its inputs and its results

vars == <<driver, rlOpts, now, rows, chalKeys, redeemKeys, limitKeys,
          pc, loc, nextTok, last, stored, wins, ranPending, wonNotPending, lost,
          params, isClosed, daemon, closing, calc>>

config == <<driver, rlOpts, params, isClosed, daemon, closing, calc>>
sqliteState == <<rows>>
redisState == <<chalKeys, redeemKeys, limitKeys>>
redemptions == <<wins, ranPending, wonNotPending, lost>>

---------------------------------------------------------------------------
(* Strings and the deterministic derivation function (cap/util.go).  A string is the  *)
(* sequence of its UTF-16 code units; a uint32 is the pair of its 16-bit halves, so    *)
(* that every operation wraps at 2^32 without leaving the integers at hand             *)

Half == 65536

\* the uint32 of its two halves
Word(hi, lo) == [hi |-> hi % Half, lo |-> lo % Half]

\* a uint32 in this representation
IsWord(w) == w.hi \in 0..(Half - 1) /\ w.lo \in 0..(Half - 1)

\* bit i of the exclusive or of two naturals, at its place
XorBit(a, b, i) == (((a \div (2 ^ i)) + (b \div (2 ^ i))) % 2) * (2 ^ i)

\* bitwise exclusive or of two 16-bit halves
XorInt(a, b) ==
    (XorBit(a, b, 0) + XorBit(a, b, 1) + XorBit(a, b, 2) + XorBit(a, b, 3))
    + (XorBit(a, b, 4) + XorBit(a, b, 5) + XorBit(a, b, 6) + XorBit(a, b, 7))
    + (XorBit(a, b, 8) + XorBit(a, b, 9) + XorBit(a, b, 10) + XorBit(a, b, 11))
    + (XorBit(a, b, 12) + XorBit(a, b, 13) + XorBit(a, b, 14) + XorBit(a, b, 15))

\* uint32 ^, <<, >> and +
XorW(a, b) == Word(XorInt(a.hi, b.hi), XorInt(a.lo, b.lo))
ShlW(a, k) ==
    IF k >= 16 THEN Word(a.lo * (2 ^ (k - 16)), 0)
    ELSE Word(a.hi * (2 ^ k) + (a.lo * (2 ^ k)) \div Half, a.lo * (2 ^ k))
ShrW(a, k) ==
    IF k >= 16 THEN Word(0, a.hi \div (2 ^ (k - 16)))
    ELSE Word(a.hi \div (2 ^ k), a.lo \div (2 ^ k) + (a.hi % (2 ^ k)) * (2 ^ (16 - k)))
AddW(a, b) == Word(a.hi + b.hi + (a.lo + b.lo) \div Half, a.lo + b.lo)

\* fnv1a: the offset basis 2166136261 = 0x811C9DC5
FnvOffsetBasis == Word(33052, 40389)

\* variant whose shift-add step leaves out hash << 24
FnvRoundNoShift24(hash, codeUnit) ==
    LET x == XorW(hash, Word(0, codeUnit))
    IN  AddW(x, AddW(AddW(AddW(ShlW(x, 1), ShlW(x, 4)), ShlW(x, 7)), ShlW(x, 8)))

\* fnv1a: one round of the loop over the code units
FnvRound(hash, codeUnit) ==
    LET x == XorW(hash, Word(0, codeUnit))
    IN  AddW(x, AddW(AddW(AddW(AddW(ShlW(x, 1), ShlW(x, 4)), ShlW(x, 7)), ShlW(x, 8)),
                     ShlW(x, 24)))

RECURSIVE FnvFold(_, _, _)
FnvFold(hash, str, i) ==
    IF i > Len(str) \/ ~IsWord(hash) THEN hash
    ELSE FnvFold(FnvRound(hash, str[i]), str, i + 1)

\* cap.fnv1a
fnv1a(str) == FnvFold(FnvOffsetBasis, str, 1)

\* prng: the closure next()
XorShift(state) ==
    LET a == XorW(state, ShlW(state, 13))
        b == XorW(a, ShrW(a, 17))
    IN  XorW(b, ShlW(b, 5))

\* the code unit of a hexadecimal digit, lower case
HexDigit(d) == IF d < 10 THEN 48 + d ELSE 87 + d

\* four hexadecimal digits of a 16-bit half, most significant first
Hex4(h) == <<HexDigit(h \div 4096), HexDigit((h \div 256) % 16),
             HexDigit((h \div 16) % 16), HexDigit(h % 16)>>

\* fmt.Sprintf("%08x", rnd)
Hex8(w) == Hex4(w.hi) \o Hex4(w.lo)

RECURSIVE PrngLoop(_, _, _)
PrngLoop(state, result, length) ==
    IF Len(result) < length /\ IsWord(state)
    THEN PrngLoop(XorShift(state), result \o Hex8(XorShift(state)), length)
    ELSE result

\* variant that returns everything the loop wrote
prngUntruncated(seed, length) == PrngLoop(fnv1a(seed), <<>>, length)

\* cap.prng
prng(seed, length) == SubSeq(PrngLoop(fnv1a(seed), <<>>, length), 1, length)

RECURSIVE Dec(_)
\* strconv.FormatInt(n, 10) and fmt's %d, for n >= 0
Dec(n) == IF n < 10 THEN <<48 + n>> ELSE Dec(n \div 10) \o <<48 + (n % 10)>>

\* strings.HasPrefix
HasPrefix(str, prefix) ==
    /\ Len(prefix) <= Len(str)
    /\ SubSeq(str, 1, Len(prefix)) = prefix

---------------------------------------------------------------------------
(* Engine and server helpers *)

NoChallenge == [ChallengeToken |-> 0, RedeemToken |-> 0, Expires |-> 0]

\* Cap.CreateChallenge: two fresh random tokens, expires = now + ValidDuration
NewChallenge(tok, t, validDuration) ==
    [ChallengeToken |-> tok, RedeemToken |-> tok, Expires |-> t + validDuration]

\* Server.ChallengeHandler: the IP the handler passes on, nil without an extractor
\* (an extractor that cannot determine the address hands Store the same nil)
HandlerIPs(hasIpFunc) == IF hasIpFunc THEN Addrs ELSE {NilAddr}

\* Server.ChallengeHandler: the answer for CreateChallenge's outcome
ChallengeStatus(res) ==
    IF res = "ok" THEN 200
    ELSE IF res = "ratelimited" THEN 429
    ELSE 500

\* variant of the guard that forgets the nil check on the IP
RateLimitAppliesAnyIP(ip, rl) == rl.on

\* Driver.Store: the guard of the rate-limit block
RateLimitApplies(ip, rl) == ip # NilAddr /\ rl.on

\* the locals of a call in flight; rl says the rate-limit block was entered, cnt is the
\* count it read, inWin and near what an observer counted at that moment, pend whether
\* the challenge was pending when UseRedeemToken reached the backend
NoLoc == [c |-> NoChallenge, ipFunc |-> FALSE, ipNil |-> TRUE, ipVer |-> NullInt,
          ipInt |-> NullBytes, rl |-> FALSE, cnt |-> 0, inWin |-> 0, near |-> 0,
          chalToken |-> 0, pend |-> FALSE]

\* variant that reports every failure of Store as one and the same error
CreateChallengeReturnOwnError(challenge, storeErr) ==
    IF storeErr # "ok" THEN [challenge |-> NoChallenge, err |-> "err"]
    ELSE [challenge |-> challenge, err |-> "ok"]

\* Cap.CreateChallenge: what it returns once Store has returned storeErr ("ok": nil)
CreateChallengeReturn(challenge, storeErr) ==
    IF storeErr # "ok" THEN [challenge |-> NoChallenge, err |-> storeErr]
    ELSE [challenge |-> challenge, err |-> "ok"]

NoCall == [op |-> "none", tok |-> 0, ipFunc |-> FALSE, ipNil |-> TRUE, res |-> "none",
           ret |-> [challenge |-> NoChallenge, err |-> "none"],
           status |-> 0, rl |-> FALSE, cnt |-> 0, inWin |-> 0, near |-> 0]

\* the observation left by a finished Store (through CreateChallenge, whose return is
\* ret, and ChallengeHandler, which answers on ret.err)
StoreCall(l, res) ==
    [op |-> "Store", tok |-> l.c.ChallengeToken, ipFunc |-> l.ipFunc, ipNil |-> l.ipNil,
     res |-> res, ret |-> CreateChallengeReturn(l.c, res),
     status |-> ChallengeStatus(CreateChallengeReturn(l.c, res).err), rl |-> l.rl,
     cnt |-> l.cnt, inWin |-> l.inWin, near |-> l.near]

Bump(n) == IF n < 2 THEN n + 1 ELSE n

\* a call returns: the goroutine is free again
Done(p) ==
    /\ pc' = [pc EXCEPT ![p] = "idle"]
    /\ loc' = [loc EXCEPT ![p] = NoLoc]

\* a Store returns res
ReturnStore(p, l, res) ==
    /\ Done(p)
    /\ last' = StoreCall(l, res)
    /\ stored' = IF res = "ok" THEN [stored EXCEPT ![l.c.ChallengeToken] = l.c.Expires]
                 ELSE stored

\* a UseRedeemToken returns wasRedeemed; pend: the challenge was pending when the call
\* reached the backend
Redeemed(redeemToken, wasRedeemed, pend) ==
    /\ wins' = IF wasRedeemed THEN [wins EXCEPT ![redeemToken] = Bump(@)] ELSE wins
    /\ wonNotPending' = IF wasRedeemed /\ ~pend
                        THEN wonNotPending \cup {redeemToken} ELSE wonNotPending
    /\ lost' = IF ~wasRedeemed /\ redeemToken \in ranPending
               THEN lost \cup {redeemToken} ELSE lost

---------------------------------------------------------------------------
(* Cap.VerifyChallengeSolutions: the computation after the fetch (cap/cap.go) *)

\* ChallengeParams the server may be configured with; every challenge it creates carries
\* them, and both drivers hand them back as stored
ModelParams == [Difficulty |-> 1, Count |-> MaxCount, SaltSize |-> SaltLen]
ParamChoices ==
    { ModelParams,
      [Difficulty |-> 1, Count |-> 0, SaltSize |-> SaltLen],
      [Difficulty |-> 0, Count |-> 1, SaltSize |-> SaltLen] }

\* the challenge tokens verification is tried on: those of the challenges found at
\* construction, and one more
VerifyTokens == 1..(NInitRows + 1)

\* hex.EncodeToString(randBytes): the string of a token
TokenStr(tok) == Dec(tok)

\* challengeTuple.Salt and .Target of the idx-th sub-challenge
Salt(ps, token, idx) == prng(TokenStr(token) \o Dec(idx), ps.SaltSize)
Target(ps, token, idx) == prng(TokenStr(token) \o Dec(idx) \o <<100>>, ps.Difficulty)

\* hex.EncodeToString of the SHA-256 digest: 64 lower-case hexadecimal digits that
\* depend on every code unit written to the hasher.  The digest function itself is
\* crypto/sha256; the derivation function above stands in for it here
Sha256Hex(msg) == prng(msg, 64)

\* the hash of one solution: the salt, then the solution in decimal
SolutionHash(salt, solution) == Sha256Hex(salt \o Dec(solution))

\* the sub-challenges and solutions on which the test of the verification loop
\* succeeds, computed once for all that are tried
PassSet ==
    UNION { LET salt == Salt(k[1], k[2], k[3])
                target == Target(k[1], k[2], k[3])
            IN  { <<k[1], k[2], k[3], solution>> :
                    solution \in { x \in 0..SolMax :
                                     HasPrefix(SolutionHash(salt, x), target) } }
            : k \in ParamChoices \X VerifyTokens \X (1..MaxCount) }

\* strings.HasPrefix(hash, target) for solution at position idx
SolutionPasses(ps, token, idx, solution) == <<ps, token, idx, solution>> \in PassSet

RECURSIVE CheckLoop(_, _, _, _, _)
\* the verification loop from position i on: whether every solution passed, and how
\* many hashes were computed before the loop ended or broke off
CheckLoop(ps, token, solutions, i, count) ==
    IF i > count THEN [isValid |-> TRUE, hashed |-> count]
    ELSE IF ~SolutionPasses(ps, token, i, solutions[i])
         THEN [isValid |-> FALSE, hashed |-> i]
         ELSE CheckLoop(ps, token, solutions, i + 1, count)

\* variant of the loop that stops after the first sub-challenge
SolutionsValidFirstOnly(ps, token, solutions, count) ==
    CheckLoop(ps, token, solutions, 1, IF count > 1 THEN 1 ELSE count)

\* the loop over all count sub-challenges
SolutionsValid(ps, token, solutions, count) == CheckLoop(ps, token, solutions, 1, count)

NoRedeemData == [RedeemToken |-> 0, Expires |-> 0]

\* variant that runs the loop over the solutions it was given before counting them
VerifyChallengeSolutionsCountLast(src, ps, solutions) ==
    IF src = NoChallenge
    THEN [err |-> "ErrChallengeNotFound", data |-> NoRedeemData, hashed |-> 0]
    ELSE LET n == IF Len(solutions) < ps.Count THEN Len(solutions) ELSE ps.Count
             v == SolutionsValid(ps, src.ChallengeToken, solutions, n)
         IN  IF ~v.isValid
             THEN [err |-> "ErrInvalidSolution", data |-> NoRedeemData, hashed |-> v.hashed]
             ELSE IF Len(solutions) < ps.Count
             THEN [err |-> "ErrInsufficientSolutions", data |-> NoRedeemData,
                   hashed |-> v.hashed]
             ELSE [err |-> "nil",
                   data |-> [RedeemToken |-> src.RedeemToken, Expires |-> src.Expires],
                   hashed |-> v.hashed]

\* Cap.VerifyChallengeSolutions once the driver has answered src, whose Params are ps:
\* the error, the redeem data, and the number of hashes computed on the way
VerifyChallengeSolutions(src, ps, solutions) ==
    IF src = NoChallenge
    THEN [err |-> "ErrChallengeNotFound", data |-> NoRedeemData, hashed |-> 0]
    ELSE IF Len(solutions) < ps.Count
    THEN [err |-> "ErrInsufficientSolutions", data |-> NoRedeemData, hashed |-> 0]
    ELSE LET v == SolutionsValid(ps, src.ChallengeToken, solutions, ps.Count)
         IN  IF ~v.isValid
             THEN [err |-> "ErrInvalidSolution", data |-> NoRedeemData, hashed |-> v.hashed]
             ELSE [err |-> "nil",
                   data |-> [RedeemToken |-> src.RedeemToken, Expires |-> src.Expires],
                   hashed |-> v.hashed]

\* the solutions tried at one position: the least that passes and the least that fails
Candidates(ps, token, idx) ==
    LET ok == {s \in 0..SolMax : SolutionPasses(ps, token, idx, s)}
        ko == {s \in 0..SolMax : ~SolutionPasses(ps, token, idx, s)}
        least(S) == {s \in S : \A o \in S : s <= o}
    IN  least(ok) \cup least(ko)

RECURSIVE SolutionsOfLen(_, _, _)
\* the solution lists of length n tried for a token
SolutionsOfLen(ps, token, n) ==
    IF n = 0 THEN {<<>>}
    ELSE UNION { {Append(sols, c) :
                    c \in (IF n <= MaxCount THEN Candidates(ps, token, n) ELSE {0})}
                 : sols \in SolutionsOfLen(ps, token, n - 1) }

\* the calls tried: parameters, challenge token and VerifySolutionsRequest.Solutions
\* of up to one more than MaxCount entries
VerifyInputs ==
    UNION { UNION { UNION { {<<ps, token, sols>> : sols \in SolutionsOfLen(ps, token, n)}
                            : n \in 0..(MaxCount + 1) }
                    : token \in VerifyTokens }
            : ps \in ParamChoices }

\* nothing has been called yet
NoCalc == [op |-> "none"]

\* NewDriver: go d.delExpiredDaemon(), which creates its ticker and waits for a tick
DaemonStart == [pc |-> "wait", log |-> "none"]

---------------------------------------------------------------------------
(* SQLite driver: the prepared statements of NewDriver *)

\* variant whose delete removes nothing
DelExpiredStmtKeepsAll(rs, unixNow) == rs

\* variant whose delete also removes the rows that expire within the next two seconds
DelExpiredStmtEarly(rs, unixNow) == {r \in rs : ~(r.expires_ts < unixNow + 2)}

\* delExpiredStmt: the table after "delete ... where expires_ts < ?"
DelExpiredStmt(rs, unixNow) == {r \in rs : ~(r.expires_ts < unixNow)}

\* getIPCountStmt: "select count(*) ... where ip_version = ? and ip_significant_bits = ?
\* and expires_ts > ?"
GetIPCountStmt(rs, ipVer, ipInt, windowStartUnix) ==
    Cardinality({r \in rs : /\ r.ip_version = ipVer
                            /\ r.ip_significant_bits = ipInt
                            /\ r.expires_ts > windowStartUnix})

\* variant of getUnredeemedStmt without "is_redeemed = 0"
GetUnredeemedStmtAnyState(rs, challengeToken, unixNow) ==
    {r \in rs : /\ r.challenge_token = challengeToken
                /\ r.expires_ts > unixNow}

\* variant of getUnredeemedStmt without "expires_ts > ?"
GetUnredeemedStmtNoExpiry(rs, challengeToken, unixNow) ==
    {r \in rs : /\ r.challenge_token = challengeToken
                /\ r.is_redeemed = 0}

\* getUnredeemedStmt: the rows selected
GetUnredeemedStmt(rs, challengeToken, unixNow) ==
    {r \in rs : /\ r.challenge_token = challengeToken
                /\ r.is_redeemed = 0
                /\ r.expires_ts > unixNow}

\* useRedeemTokenStmt of the current driver: the WHERE clause
UseRedeemTokenWhere(r, redeemToken, unixNow) ==
    /\ r.redeem_token = redeemToken
    /\ r.is_redeemed = 0
    /\ r.expires_ts > unixNow

\* useRedeemTokenStmt of the draft driver (sqlitedriver/driver.go): the WHERE clause
UseRedeemTokenWhereDraft(r, redeemToken, unixNow) ==
    /\ r.redeem_token = redeemToken
    /\ r.is_redeemed = 0
    /\ r.expires_ts < unixNow

UseRedeemTokenMatches(d, rs, redeemToken, unixNow) ==
    {r \in rs : IF d = "sqlite_draft"
                THEN UseRedeemTokenWhereDraft(r, redeemToken, unixNow)
                ELSE UseRedeemTokenWhere(r, redeemToken, unixNow)}

\* variant of useRedeemTokenStmt that marks nothing
UseRedeemTokenStmtNoMark(d, rs, redeemToken, unixNow) == rs

\* useRedeemTokenStmt: "update cap_challenge set is_redeemed = 1 where ..."
UseRedeemTokenStmt(d, rs, redeemToken, unixNow) ==
    {IF r \in UseRedeemTokenMatches(d, rs, redeemToken, unixNow)
     THEN [r EXCEPT !.is_redeemed = 1] ELSE r : r \in rs}

\* insertStmt: the row it offers; is_redeemed is not among its columns and has no
\* default, created_ts takes its default
InsertRow(c, ipVer, ipInt, unixNow) ==
    [challenge_token |-> c.ChallengeToken, redeem_token |-> c.RedeemToken,
     is_redeemed |-> NullInt, ip_version |-> ipVer, ip_significant_bits |-> ipInt,
     expires_ts |-> Unix(c.Expires), created_ts |-> unixNow]

\* cap_challenge: the not-null columns and the two unique indexes
ConstraintsOK(rs, r) ==
    /\ r.is_redeemed # NullInt
    /\ r.ip_version # NullInt
    /\ r.ip_significant_bits # NullBytes
    /\ \A x \in rs : /\ x.challenge_token # r.challenge_token
                     /\ x.redeem_token # r.redeem_token

\* Driver.Store: the comparison that refuses a creation
OverLimit(count, rl) == count > rl.MaxChallengesPerIP

---------------------------------------------------------------------------
(* What an observer knows of a challenge, independent of the driver's queries *)

\* rows of one rate-limit key certainly created inside the trailing window
RowsInWindow(rs, ipVer, ipInt, t, window) ==
    Cardinality({r \in rs : /\ r.ip_version = ipVer
                            /\ r.ip_significant_bits = ipInt
                            /\ Seconds(r.created_ts) > t - window})

\* rows of one rate-limit key possibly created inside the trailing window
RowsNearWindow(rs, ipVer, ipInt, t, window) ==
    Cardinality({r \in rs : /\ r.ip_version = ipVer
                            /\ r.ip_significant_bits = ipInt
                            /\ Seconds(r.created_ts) + TicksPerSec - 1 >= t - window})

\* a stored SQLite challenge that is neither redeemed nor past its expiry time
SqlitePending(rs, redeemToken, t) ==
    \E r \in rs : /\ r.redeem_token = redeemToken
                  /\ r.is_redeemed = 0
                  /\ t < Seconds(r.expires_ts)


---------------------------------------------------------------------------
(* Initial states *)

\* the rate-limit key and the expiry seconds of the rows found at construction
InitKey == IpToInt64(Addr4a, 24, 64)
InitExpiries == {1, 2}
\* the ValidDuration, in ticks, of the challenges found at construction
InitValidDuration == 3

InitRow(i, exp) ==
    [challenge_token |-> i, redeem_token |-> i, is_redeemed |-> 0,
     ip_version |-> InitKey[1], ip_significant_bits |-> InitKey[2],
     expires_ts |-> exp, created_ts |-> 0]

\* every table of at most NInitRows unredeemed rows, created at tick 0
InitTables ==
    { {InitRow(i, f[i]) : i \in S} :
        f \in [1..NInitRows -> InitExpiries], S \in SUBSET (1..NInitRows) }

\* a driver constructed with one of the given rate-limit options
InitBase(drivers, rateLimits) ==
    /\ driver \in drivers
    /\ rlOpts \in rateLimits
    /\ now = 0
    /\ rows \in (IF IsSqlite(driver) THEN InitTables ELSE {{}})
    /\ chalKeys = <<>>
    /\ redeemKeys = <<>>
    /\ limitKeys = <<>>
    /\ pc = [p \in Procs |-> "idle"]
    /\ loc = [p \in Procs |-> NoLoc]
    /\ nextTok = NInitRows + 1
    /\ last = NoCall
    /\ stored = [t \in TokenIds |->
                   IF \E r \in rows : r.challenge_token = t
                   THEN Seconds((CHOOSE r \in rows : r.challenge_token = t).expires_ts)
                   ELSE NeverStored]
    /\ wins = [t \in TokenIds |-> 0]
    /\ ranPending = {}
    /\ wonNotPending = {}
    /\ lost = {}
    /\ params = ModelParams
    /\ isClosed = FALSE
    /\ daemon = DaemonStart
    /\ closing = "no"

InitFor(drivers) == InitBase(drivers, RateLimitChoices) /\ calc = NoCalc

Init == InitFor(Drivers)

---------------------------------------------------------------------------
(* SQLite driver: the operations *)

\* Driver.GetUnredeemedChallenge: nil, or the challenge rebuilt from the row
SqliteGetUnredeemedChallenge(rs, challengeToken, t) ==
    LET found == GetUnredeemedStmt(rs, challengeToken, Unix(t))
    IN  IF found = {} THEN NoChallenge
        ELSE LET r == CHOOSE x \in found : TRUE
             IN  [ChallengeToken |-> challengeToken, RedeemToken |-> r.redeem_token,
                  Expires |-> Seconds(r.expires_ts)]

\* Driver.UseRedeemToken: wasRedeemed, from the rows the update affects
SqliteUseRedeemTokenResult(d, rs, redeemToken, t) ==
    Cardinality(UseRedeemTokenMatches(d, rs, redeemToken, Unix(t))) > 0

\* ChallengeHandler -> CreateChallenge -> Driver.Store, up to the count query
SqliteStore(p) ==
    /\ IsSqlite(driver)
    /\ pc[p] = "idle"
    /\ nextTok <= NInitRows + MaxChallenges
    /\ \E f \in BOOLEAN, d \in ValidDurations : \E ip \in HandlerIPs(f) :
         LET c == NewChallenge(nextTok, now, d)
             key == IpToInt64(ip, rlOpts.IPv4SignificantBits, rlOpts.IPv6SignificantBits)
             windowStart == now - rlOpts.MaxChallengesWindow
             count == GetIPCountStmt(rows, key[1], key[2], Unix(windowStart))
             l0 == [NoLoc EXCEPT !.c = c, !.ipFunc = f, !.ipNil = (ip = NilAddr)]
             l == IF RateLimitApplies(ip, rlOpts)
                  THEN [l0 EXCEPT !.ipVer = key[1], !.ipInt = key[2],
                          !.rl = TRUE, !.cnt = count,
                          !.inWin = RowsInWindow(rows, key[1], key[2], now,
                                                 rlOpts.MaxChallengesWindow),
                          !.near = RowsNearWindow(rows, key[1], key[2], now,
                                                  rlOpts.MaxChallengesWindow)]
                  ELSE l0
         IN  IF RateLimitApplies(ip, rlOpts) /\ OverLimit(count, rlOpts)
             THEN ReturnStore(p, l, "ratelimited")
             ELSE /\ pc' = [pc EXCEPT ![p] = "insert"]
                  /\ loc' = [loc EXCEPT ![p] = l]
                  /\ UNCHANGED <<last, stored>>
    /\ nextTok' = nextTok + 1
    /\ UNCHANGED <<config, now, sqliteState, redisState, redemptions>>

\* Driver.Store: the insert and its outcome
SqliteStoreInsert(p) ==
    /\ IsSqlite(driver)
    /\ pc[p] = "insert"
    /\ LET l == loc[p]
           r == InsertRow(l.c, l.ipVer, l.ipInt, Unix(now))
       IN  IF ConstraintsOK(rows, r)
           THEN /\ rows' = rows \cup {r}
                /\ ReturnStore(p, l, "ok")
           ELSE /\ rows' = rows
                /\ ReturnStore(p, l, "err")
    /\ UNCHANGED <<config, now, redisState, nextTok, redemptions>>

\* Cap.VerifyChallengeSolutions' fetch, Driver.GetUnredeemedChallenge: reads only
SqliteGet(p, challengeToken) ==
    /\ driver = "sqlite"
    /\ pc[p] = "idle"
    /\ SqliteGetUnredeemedChallenge(rows, challengeToken, now) \in
          {NoChallenge} \cup
          {[ChallengeToken |-> challengeToken, RedeemToken |-> r.redeem_token,
            Expires |-> Seconds(r.expires_ts)] : r \in rows}
    /\ UNCHANGED vars

\* Cap.UseRedeemToken -> Driver.UseRedeemToken
SqliteUseRedeemToken(p, redeemToken) ==
    /\ IsSqlite(driver)
    /\ pc[p] = "idle"
    /\ LET pend == SqlitePending(rows, redeemToken, now)
       IN  /\ rows' = UseRedeemTokenStmt(driver, rows, redeemToken, Unix(now))
           /\ Redeemed(redeemToken,
                       SqliteUseRedeemTokenResult(driver, rows, redeemToken, now), pend)
           /\ ranPending' = IF pend THEN ranPending \cup {redeemToken} ELSE ranPending
    /\ UNCHANGED <<config, now, redisState, pc, loc, nextTok, last, stored>>

\* Driver.delExpiredDaemon: one pruning pass
DelExpiredDaemon ==
    /\ IsSqlite(driver)
    /\ rows' = DelExpiredStmt(rows, Unix(now))
    /\ UNCHANGED <<config, now, redisState, pc, loc, nextTok, last, stored, redemptions>>

---------------------------------------------------------------------------
(* Redis driver: the commands it issues, as the server and go-redis carry them out *)

\* a map without key k / with key k bound to e
Without(m, k) == [x \in DOMAIN m \ {k} |-> m[x]]
With(m, k, e) == [x \in DOMAIN m \cup {k} |-> IF x = k THEN e ELSE m[x]]

\* Driver.Store: expDur, the expiration handed to both SETs
ExpDur(t, c) == t - c.Expires

\* client.Set(key, value, expiration): the entry's deadline; go-redis sends an expiry
\* only for a positive expiration
SetTTL(t, expiration) == IF expiration > 0 THEN t + expiration ELSE NoTTL

\* variant that counts a creation against every address group
IncrEveryKey(m, key) ==
    [k \in DOMAIN m \cup {key}
          \cup {IpToInt64(ip, rlOpts.IPv4SignificantBits, rlOpts.IPv6SignificantBits) :
                   ip \in Addrs} |->
        IF k \in DOMAIN m THEN [m[k] EXCEPT !.n = @ + 1]
        ELSE [n |-> 1, ttl |-> NoTTL, passed |-> 0]]

\* client.Incr(key): the counter after INCR; a new key has no time-to-live.
\* passed counts the Store calls let through since the counter was created
Incr(m, key) ==
    IF key \in DOMAIN m
    THEN [m EXCEPT ![key].n = @ + 1]
    ELSE With(m, key, [n |-> 1, ttl |-> NoTTL, passed |-> 0])

\* client.Expire(key, window)
Expire(m, key, t, window) ==
    IF key \notin DOMAIN m THEN m
    ELSE IF window > 0 THEN [m EXCEPT ![key].ttl = t + window]
    ELSE Without(m, key)

\* variant of the comparison that is off by one more
RedisOverLimitLate(res, rl) == res > rl.MaxChallengesPerIP + 1

\* Driver.Store: the comparison that refuses a creation
RedisOverLimit(res, rl) == res > rl.MaxChallengesPerIP

\* the counter entry notes one more Store let through
LetThrough(m, key) == IF key \in DOMAIN m THEN [m EXCEPT ![key].passed = Bump(@)] ELSE m

\* variant of the closure that reports the second SET's error as well
StorePipelineResultBoth(setChallengeFailed, setRedeemFailed) ==
    IF setChallengeFailed \/ setRedeemFailed THEN "err" ELSE "ok"

\* Driver.Store: what the TxPipelined closure makes Store return, given which SET failed
StorePipelineResult(setChallengeFailed, setRedeemFailed) ==
    IF setChallengeFailed THEN "err" ELSE "ok"

\* variant that hands the challenge back with an expiry one second later
RedisGetUnredeemedChallengeLate(chals, challengeToken) ==
    IF challengeToken \in DOMAIN chals
    THEN [chals[challengeToken].c EXCEPT !.Expires = @ + Seconds(1)]
    ELSE NoChallenge

\* Driver.GetUnredeemedChallenge: nil, or the decoded challenge
RedisGetUnredeemedChallenge(chals, challengeToken) ==
    IF challengeToken \in DOMAIN chals THEN chals[challengeToken].c ELSE NoChallenge

\* Driver.UseRedeemToken: wasRedeemed, were GETDEL and DEL to run now
RedisUseRedeemTokenResult(chals, redeems, redeemToken) ==
    /\ redeemToken \in DOMAIN redeems
    /\ redeems[redeemToken].ct \in DOMAIN chals

\* a stored Redis challenge that is neither redeemed nor past its expiry time
RedisPending(chals, redeems, redeemToken, t) ==
    /\ redeemToken \in DOMAIN redeems
    /\ redeems[redeemToken].ct \in DOMAIN chals
    /\ chals[redeems[redeemToken].ct].c.RedeemToken = redeemToken
    /\ t < chals[redeems[redeemToken].ct].c.Expires

---------------------------------------------------------------------------
(* Redis driver: the operations *)

\* ChallengeHandler -> CreateChallenge -> Driver.Store, up to INCR
RedisStore(p) ==
    /\ driver = "redis"
    /\ pc[p] = "idle"
    /\ nextTok <= NInitRows + MaxChallenges
    /\ \E f \in BOOLEAN, d \in ValidDurations : \E ip \in HandlerIPs(f) :
         LET c == NewChallenge(nextTok, now, d)
             key == IpToInt64(ip, rlOpts.IPv4SignificantBits, rlOpts.IPv6SignificantBits)
             incremented == Incr(limitKeys, key)
             res == incremented[key].n
             l0 == [NoLoc EXCEPT !.c = c, !.ipFunc = f, !.ipNil = (ip = NilAddr)]
             l == [l0 EXCEPT !.ipVer = key[1], !.ipInt = key[2], !.rl = TRUE, !.cnt = res]
         IN  IF ~RateLimitApplies(ip, rlOpts)
             THEN /\ pc' = [pc EXCEPT ![p] = "set"]
                  /\ loc' = [loc EXCEPT ![p] = l0]
                  /\ UNCHANGED <<limitKeys, last, stored>>
             ELSE IF res = 1
             THEN /\ limitKeys' = incremented
                  /\ pc' = [pc EXCEPT ![p] = "expire"]
                  /\ loc' = [loc EXCEPT ![p] = l]
                  /\ UNCHANGED <<last, stored>>
             ELSE IF RedisOverLimit(res, rlOpts)
             THEN /\ limitKeys' = incremented
                  /\ ReturnStore(p, l, "ratelimited")
             ELSE /\ limitKeys' = LetThrough(incremented, key)
                  /\ pc' = [pc EXCEPT ![p] = "set"]
                  /\ loc' = [loc EXCEPT ![p] = l]
                  /\ UNCHANGED <<last, stored>>
    /\ nextTok' = nextTok + 1
    /\ UNCHANGED <<config, now, sqliteState, chalKeys, redeemKeys, redemptions>>

\* Driver.Store: EXPIRE on the counter this call created, then the comparison
RedisStoreExpire(p) ==
    /\ driver = "redis"
    /\ pc[p] = "expire"
    /\ LET l == loc[p]
           key == <<l.ipVer, l.ipInt>>
           expired == Expire(limitKeys, key, now, rlOpts.MaxChallengesWindow)
       IN  IF RedisOverLimit(l.cnt, rlOpts)
           THEN /\ limitKeys' = expired
                /\ ReturnStore(p, l, "ratelimited")
           ELSE /\ limitKeys' = LetThrough(expired, key)
                /\ pc' = [pc EXCEPT ![p] = "set"]
                /\ UNCHANGED <<loc, last, stored>>
    /\ UNCHANGED <<config, now, sqliteState, chalKeys, redeemKeys, nextTok, redemptions>>

\* Driver.Store: SET of the challenge entry
RedisStoreSetChallenge(p) ==
    /\ driver = "redis"
    /\ pc[p] = "set"
    /\ LET c == loc[p].c
       IN  chalKeys' = With(chalKeys, c.ChallengeToken,
                            [c |-> c, ttl |-> SetTTL(now, ExpDur(now, c))])
    /\ pc' = [pc EXCEPT ![p] = "set2"]
    /\ UNCHANGED <<config, now, sqliteState, redeemKeys, limitKeys, loc, nextTok, last,
                   stored, redemptions>>

\* Driver.Store: SET of the redeem-token entry, and the return
RedisStoreSetRedeem(p) ==
    /\ driver = "redis"
    /\ pc[p] = "set2"
    /\ LET c == loc[p].c
       IN  redeemKeys' = With(redeemKeys, c.RedeemToken,
                              [ct |-> c.ChallengeToken, ttl |-> SetTTL(now, ExpDur(now, c))])
    /\ ReturnStore(p, loc[p], StorePipelineResult(FALSE, FALSE))
    /\ UNCHANGED <<config, now, sqliteState, chalKeys, limitKeys, nextTok, redemptions>>

\* Cap.VerifyChallengeSolutions' fetch, Driver.GetUnredeemedChallenge: reads only
RedisGet(p, challengeToken) ==
    /\ driver = "redis"
    /\ pc[p] = "idle"
    /\ RedisGetUnredeemedChallenge(chalKeys, challengeToken) \in
          {NoChallenge} \cup {chalKeys[k].c : k \in DOMAIN chalKeys}
    /\ UNCHANGED vars

\* Cap.UseRedeemToken -> Driver.UseRedeemToken: GETDEL of the redeem-token entry
RedisUseRedeemToken(p, redeemToken) ==
    /\ driver = "redis"
    /\ pc[p] = "idle"
    /\ IF redeemToken \in DOMAIN redeemKeys
       THEN /\ redeemKeys' = Without(redeemKeys, redeemToken)
            /\ pc' = [pc EXCEPT ![p] = "del"]
            /\ loc' = [loc EXCEPT ![p] =
                         [NoLoc EXCEPT !.c.RedeemToken = redeemToken,
                                       !.chalToken = redeemKeys[redeemToken].ct,
                                       !.pend = RedisPending(chalKeys, redeemKeys,
                                                             redeemToken, now)]]
            /\ ranPending' = IF RedisPending(chalKeys, redeemKeys, redeemToken, now)
                             THEN ranPending \cup {redeemToken} ELSE ranPending
            /\ UNCHANGED <<wins, wonNotPending, lost>>
       ELSE /\ Redeemed(redeemToken, FALSE, FALSE)
            /\ UNCHANGED <<redeemKeys, pc, loc, ranPending>>
    /\ UNCHANGED <<config, now, sqliteState, chalKeys, limitKeys, nextTok, last, stored>>

\* Driver.UseRedeemToken: DEL of the challenge entry, and the return
RedisUseRedeemTokenDel(p) ==
    /\ driver = "redis"
    /\ pc[p] = "del"
    /\ LET delCount == IF loc[p].chalToken \in DOMAIN chalKeys THEN 1 ELSE 0
       IN  /\ chalKeys' = Without(chalKeys, loc[p].chalToken)
           /\ Redeemed(loc[p].c.RedeemToken, delCount > 0, loc[p].pend)
    /\ Done(p)
    /\ UNCHANGED <<config, now, sqliteState, redeemKeys, limitKeys, nextTok, last, stored,
                   ranPending>>

---------------------------------------------------------------------------
(* Time *)

\* a Redis entry is gone once its time-to-live has run out
Live(e, t) == e.ttl = NoTTL \/ t < e.ttl
Purge(m, t) == [k \in {x \in DOMAIN m : Live(m[x], t)} |-> m[k]]

Tick ==
    /\ now < MaxTime
    /\ now' = now + 1
    /\ chalKeys' = Purge(chalKeys, now + 1)
    /\ redeemKeys' = Purge(redeemKeys, now + 1)
    /\ limitKeys' = Purge(limitKeys, now + 1)
    /\ UNCHANGED <<config, sqliteState, pc, loc, nextTok, last, stored, redemptions>>

---------------------------------------------------------------------------
Next ==
    \/ \E p \in Procs : SqliteStore(p)
    \/ \E p \in Procs : SqliteStoreInsert(p)
    \/ \E p \in Procs, t \in TokenIds : SqliteGet(p, t)
    \/ \E p \in Procs, t \in TokenIds : SqliteUseRedeemToken(p, t)
    \/ DelExpiredDaemon
    \/ \E p \in Procs : RedisStore(p)
    \/ \E p \in Procs : RedisStoreExpire(p)
    \/ \E p \in Procs : RedisStoreSetChallenge(p)
    \/ \E p \in Procs : RedisStoreSetRedeem(p)
    \/ \E p \in Procs, t \in TokenIds : RedisGet(p, t)
    \/ \E p \in Procs, t \in TokenIds : RedisUseRedeemToken(p, t)
    \/ \E p \in Procs : RedisUseRedeemTokenDel(p)
    \/ Tick

Spec == Init /\ [][Next]_vars

---------------------------------------------------------------------------
(* The draft SQLite driver of sqlitedriver/driver.go, its statements taken as prepared; *)
(* its getUnredeemedStmt names no table, so GetUnredeemedChallenge is left out          *)

NextDraft ==
    \/ \E p \in Procs : SqliteStore(p)
    \/ \E p \in Procs : SqliteStoreInsert(p)
    \/ \E p \in Procs, t \in TokenIds : SqliteUseRedeemToken(p, t)
    \/ DelExpiredDaemon
    \/ Tick

SpecDraft == InitFor({"sqlite_draft"}) /\ [][NextDraft]_vars

---------------------------------------------------------------------------
(* Backend failures: a query or command of Store comes back with an error *)

\* SQLite Driver.Store: the count query fails
SqliteStoreCountFail(p) ==
    /\ IsSqlite(driver)
    /\ pc[p] = "idle"
    /\ nextTok <= NInitRows + MaxChallenges
    /\ \E f \in BOOLEAN, d \in ValidDurations : \E ip \in HandlerIPs(f) :
         LET c == NewChallenge(nextTok, now, d)
             l == [NoLoc EXCEPT !.c = c, !.ipFunc = f, !.ipNil = (ip = NilAddr),
                                !.rl = TRUE]
         IN  /\ RateLimitApplies(ip, rlOpts)
             /\ ReturnStore(p, l, "err")
    /\ nextTok' = nextTok + 1
    /\ UNCHANGED <<config, now, sqliteState, redisState, redemptions>>

\* Redis Driver.Store: INCR fails
RedisStoreIncrFail(p) ==
    /\ driver = "redis"
    /\ pc[p] = "idle"
    /\ nextTok <= NInitRows + MaxChallenges
    /\ \E f \in BOOLEAN, d \in ValidDurations : \E ip \in HandlerIPs(f) :
         LET c == NewChallenge(nextTok, now, d)
             l == [NoLoc EXCEPT !.c = c, !.ipFunc = f, !.ipNil = (ip = NilAddr),
                                !.rl = TRUE]
         IN  /\ RateLimitApplies(ip, rlOpts)
             /\ ReturnStore(p, l, "err")
    /\ nextTok' = nextTok + 1
    /\ UNCHANGED <<config, now, sqliteState, redisState, redemptions>>

\* Redis Driver.Store: EXPIRE fails, the counter keeps no time-to-live
RedisStoreExpireFail(p) ==
    /\ driver = "redis"
    /\ pc[p] = "expire"
    /\ ReturnStore(p, loc[p], "err")
    /\ UNCHANGED <<config, now, sqliteState, redisState, nextTok, redemptions>>

\* Redis Driver.Store: the SET of the challenge entry fails
RedisStoreSetChallengeFail(p) ==
    /\ driver = "redis"
    /\ pc[p] = "set"
    /\ ReturnStore(p, loc[p], StorePipelineResult(TRUE, FALSE))
    /\ UNCHANGED <<config, now, sqliteState, redisState, nextTok, redemptions>>

\* Redis Driver.Store: the SET of the redeem-token entry fails
RedisStoreSetRedeemFail(p) ==
    /\ driver = "redis"
    /\ pc[p] = "set2"
    /\ ReturnStore(p, loc[p], StorePipelineResult(FALSE, TRUE))
    /\ UNCHANGED <<config, now, sqliteState, redisState, nextTok, redemptions>>

NextFault ==
    \/ Next
    \/ \E p \in Procs : SqliteStoreCountFail(p)
    \/ \E p \in Procs : RedisStoreIncrFail(p)
    \/ \E p \in Procs : RedisStoreExpireFail(p)
    \/ \E p \in Procs : RedisStoreSetChallengeFail(p)
    \/ \E p \in Procs : RedisStoreSetRedeemFail(p)

SpecFault == Init /\ [][NextFault]_vars

---------------------------------------------------------------------------
(* IpToInt64 on pairs of addresses *)

\* the documented ranges of the two significant-bit parameters
MaxV4Bits == 32
MaxV6Bits == 64

\* bit k of an address, bit 0 being the most significant bit of the first byte
AddrBit(addr, k) == (addr.bytes[k \div 8 + 1] \div (2 ^ (7 - (k % 8)))) % 2

\* the address with bit k inverted
FlipBit(addr, k) ==
    [addr EXCEPT !.bytes[k \div 8 + 1] =
        IF AddrBit(addr, k) = 1 THEN @ - 2 ^ (7 - (k % 8)) ELSE @ + 2 ^ (7 - (k % 8))]

\* bit positions that get inverted: every IPv4 position; for IPv6 the positions next to
\* byte borders, next to the 64-bit border and at both ends
FlipPositions(ver) ==
    IF ver = 4 THEN 0..31
    ELSE {0, 1, 7, 8, 9, 47, 48, 55, 56, 57, 62, 63, 64, 65, 100, 127}

\* a base address and the addresses that differ from it in none, one or two bits
Variants(base) ==
    {base}
      \cup {FlipBit(base, k) : k \in FlipPositions(base.ver)}
      \cup {FlipBit(FlipBit(base, k[1]), k[2]) :
               k \in {q \in FlipPositions(base.ver) \X FlipPositions(base.ver) : q[1] < q[2]}}

\* the pairs of same-version addresses, and the pairs of an IPv4 and an IPv6 address
PairsOf(base) == {<<base, other>> : other \in Variants(base)}
IpPairs ==
    PairsOf(Addr4a) \cup PairsOf(Addr4b) \cup PairsOf(Addr6a)
      \cup {p \in Addrs \X Addrs : p[1].ver # p[2].ver}

\* the pairs with every significant-bit count of their version
IpInputs ==
    { c \in { [op |-> "input", a |-> p[1], b |-> p[2], bits |-> n]
                : p \in IpPairs, n \in 0..MaxV6Bits }
        : c.bits <= (IF c.a.ver = 4 THEN MaxV4Bits ELSE MaxV6Bits) }

\* the arguments IpToInt64 gets for an input: the count of the address's own version is
\* the drawn one, the other one is at its maximum
KeyOf(addr, bits) ==
    IpToInt64(addr, IF addr.ver = 4 THEN bits ELSE MaxV4Bits,
                    IF addr.ver = 6 THEN bits ELSE MaxV6Bits)

\* the state in which a function of the package is applied to arguments drawn from
\* `inputs`: no driver call has been made
InitPure(inputs) ==
    /\ driver = "sqlite"
    /\ rlOpts = NoRateLimit
    /\ now = 0
    /\ rows = {}
    /\ chalKeys = <<>>
    /\ redeemKeys = <<>>
    /\ limitKeys = <<>>
    /\ pc = [p \in Procs |-> "idle"]
    /\ loc = [p \in Procs |-> NoLoc]
    /\ nextTok = NInitRows + 1
    /\ last = NoCall
    /\ stored = [t \in TokenIds |-> NeverStored]
    /\ wins = [t \in TokenIds |-> 0]
    /\ ranPending = {}
    /\ wonNotPending = {}
    /\ lost = {}
    /\ params = ModelParams
    /\ isClosed = FALSE
    /\ daemon = DaemonStart
    /\ closing = "no"
    /\ calc \in inputs

InitIp == InitPure(IpInputs)

\* IpToInt64 is applied to both addresses of the pair
ApplyIpToInt64 ==
    /\ calc.op = "input"
    /\ calc' = [op |-> "IpToInt64", a |-> calc.a, b |-> calc.b, bits |-> calc.bits,
                keyA |-> KeyOf(calc.a, calc.bits), keyB |-> KeyOf(calc.b, calc.bits)]
    /\ UNCHANGED <<driver, rlOpts, params, isClosed, daemon, closing, now, sqliteState,
                   redisState, pc, loc, nextTok, last, stored, redemptions>>

NextIp == ApplyIpToInt64

SpecIp == InitIp /\ [][NextIp]_vars

---------------------------------------------------------------------------
(* IpToInt64 with significant-bit counts inside and outside the documented ranges *)

\* how far outside the documented ranges the counts are drawn
BitsSlack == 16

\* Go's integer division, which truncates toward zero
GoDiv(a, b) == IF a >= 0 THEN a \div b ELSE 0 - ((0 - a) \div b)

\* the loop indices at which IpToInt64 writes into beBytes, which has 8 elements
WrittenIndices(addr, ipVSignificantBits, ipV6SignificantBits) ==
    IF addr.ver = 6
    THEN {i \in 0..15 : i < GoDiv(ipV6SignificantBits, 8)}
    ELSE {i + 4 : i \in {j \in 0..3 : j < GoDiv(ipVSignificantBits, 8)}}

\* IpToInt64 panics: an index outside beBytes is written (the function has no other
\* panic; `if byteCount > 64 {}` has an empty body)
IpToInt64Panics(addr, ipVSignificantBits, ipV6SignificantBits) ==
    \E i \in WrittenIndices(addr, ipVSignificantBits, ipV6SignificantBits) : i > 7

BoundsInputs ==
    { [op |-> "bounds input", addr |-> addr, v4 |-> v4, v6 |-> v6]
        : addr \in Addrs,
          v4 \in (0 - BitsSlack)..(MaxV4Bits + BitsSlack),
          v6 \in (0 - BitsSlack)..(MaxV6Bits + BitsSlack) }

InitIpBounds == InitPure(BoundsInputs)

\* IpToInt64 is called with the drawn address and counts
ApplyIpToInt64Bounds ==
    /\ calc.op = "bounds input"
    /\ calc' = [op |-> "IpToInt64 bounds", addr |-> calc.addr, v4 |-> calc.v4, v6 |-> calc.v6,
                panics |-> IpToInt64Panics(calc.addr, calc.v4, calc.v6)]
    /\ UNCHANGED <<driver, rlOpts, params, isClosed, daemon, closing, now, sqliteState,
                   redisState, pc, loc, nextTok, last, stored, redemptions>>

NextIpBounds == ApplyIpToInt64Bounds

SpecIpBounds == InitIpBounds /\ [][NextIpBounds]_vars

---------------------------------------------------------------------------
(* prng on seeds and lengths of its own.  A seed is given as the Go string's runes *)

\* the longest output asked for
MaxPrngLen == 256

\* utf16.Encode of one rune ([]rune(str) yields no surrogate and nothing above U+10FFFF)
Utf16EncodeRune(r) ==
    IF r < Half THEN <<r>>
    ELSE <<55296 + ((r - Half) \div 1024), 56320 + ((r - Half) % 1024)>>

RECURSIVE Utf16Encode(_)
\* utf16.Encode(runes)
Utf16Encode(runes) ==
    IF runes = <<>> THEN <<>>
    ELSE Utf16EncodeRune(Head(runes)) \o Utf16Encode(Tail(runes))

\* seeds: "", "a", "11", "1d", "é", U+1F600, "a" U+1F600 "€", NUL, "0000"
PrngSeeds ==
    { <<>>, <<97>>, <<49, 49>>, <<49, 100>>, <<233>>, <<128512>>, <<97, 128512, 8364>>,
      <<0>>, <<48, 48, 48, 48>> }

PrngInputs ==
    { [op |-> "prng input", seed |-> seed, length |-> length]
        : seed \in PrngSeeds, length \in 0..MaxPrngLen }

InitPrng == InitPure(PrngInputs)

\* prng(seed, length) is called; `rounds` is the number of times its loop body ran
ApplyPrng ==
    /\ calc.op = "prng input"
    /\ calc' = [op |-> "prng", seed |-> calc.seed, length |-> calc.length,
                out |-> prng(Utf16Encode(calc.seed), calc.length),
                rounds |-> Len(PrngLoop(fnv1a(Utf16Encode(calc.seed)), <<>>, calc.length))
                             \div 8]
    /\ UNCHANGED <<driver, rlOpts, params, isClosed, daemon, closing, now, sqliteState,
                   redisState, pc, loc, nextTok, last, stored, redemptions>>

\* prng is called once more with the same arguments
ApplyPrngAgain ==
    /\ calc.op = "prng"
    /\ calc' = [op |-> "prng twice", seed |-> calc.seed, length |-> calc.length,
                out |-> calc.out, rounds |-> calc.rounds,
                again |-> prng(Utf16Encode(calc.seed), calc.length)]
    /\ UNCHANGED <<driver, rlOpts, params, isClosed, daemon, closing, now, sqliteState,
                   redisState, pc, loc, nextTok, last, stored, redemptions>>

NextPrng == ApplyPrng \/ ApplyPrngAgain

SpecPrng == InitPrng /\ [][NextPrng]_vars

---------------------------------------------------------------------------
(* The draft SQLite driver of sqlitedriver/driver.go constructed with options of the *)
(* caller's choice                                                                   *)

DefaultIPv4SignificantBits == 32
DefaultIPv6SignificantBits == 64

\* NewDriver: the copy rlOpts after the two if-else chains
NormaliseBits(bits, default, max) ==
    IF bits < 1 THEN default ELSE IF bits > max THEN max ELSE bits
NormalisedOptions(o) ==
    [o EXCEPT !.IPv4SignificantBits = NormaliseBits(@, DefaultIPv4SignificantBits, 32),
              !.IPv6SignificantBits = NormaliseBits(@, DefaultIPv6SignificantBits, 64)]

\* NewDriver: the options Store reads, d.opts.RateLimitOpts.  d.opts was copied from the
\* parameter before the normalisation; `opts.RateLimitOpts = &rlOpts` then redirects the
\* parameter's pointer, not the driver's, which still points at the caller's options
DraftHeldOptions(o) == o

\* the caller's options: none; bits in range with MaxChallengesPerIp 0; bits omitted;
\* bits above the maxima
DraftOptionChoices ==
    { NoRateLimit,
      [on |-> TRUE, IPv4SignificantBits |-> 24, IPv6SignificantBits |-> 64,
       MaxChallengesPerIP |-> 0, MaxChallengesWindow |-> Seconds(1)],
      [on |-> TRUE, IPv4SignificantBits |-> 0, IPv6SignificantBits |-> 0,
       MaxChallengesPerIP |-> 1, MaxChallengesWindow |-> Seconds(1)],
      [on |-> TRUE, IPv4SignificantBits |-> 40, IPv6SignificantBits |-> 70,
       MaxChallengesPerIP |-> 1, MaxChallengesWindow |-> Seconds(1)] }

\* NewDriver(sqlite, opts); the observation keeps the caller's options
InitDraftOptions ==
    \E o \in DraftOptionChoices :
        /\ InitBase({"sqlite_draft"}, {DraftHeldOptions(o)})
        /\ calc = [op |-> "NewDriver", opts |-> o]

SpecDraftOptions == InitDraftOptions /\ [][NextDraft]_vars

---------------------------------------------------------------------------
(* SQLite driver: the pruning goroutine step by step, and Close *)

\* what the read of d.isClosed may yield.  The field is a plain bool that Close writes
\* and the goroutine reads with no synchronisation between them: once written, the
\* read yields the written value or the one before it
IsClosedReads(written) == IF written THEN {TRUE, FALSE} ELSE {FALSE}

\* variant in which a failed pass ends the goroutine
OnPassErrorReturn == "exited"

\* delExpiredDaemon: where the loop goes after logging a failed pass (continue)
OnPassError == "wait"

\* for range t.C: the ticker delivers a tick
DaemonTick ==
    /\ IsSqlite(driver)
    /\ daemon.pc = "wait"
    /\ daemon' = [daemon EXCEPT !.pc = "check"]
    /\ UNCHANGED <<driver, rlOpts, params, isClosed, closing, calc, now, sqliteState,
                   redisState, pc, loc, nextTok, last, stored, redemptions>>

\* if d.isClosed { return }
DaemonCheck ==
    /\ IsSqlite(driver)
    /\ daemon.pc = "check"
    /\ \E seen \in IsClosedReads(isClosed) :
          daemon' = [daemon EXCEPT !.pc = IF seen THEN "exited" ELSE "exec"]
    /\ UNCHANGED <<driver, rlOpts, params, isClosed, closing, calc, now, sqliteState,
                   redisState, pc, loc, nextTok, last, stored, redemptions>>

\* d.delExpiredStmt.Exec(time.Now().Unix()) and RowsAffected succeed; the debug line
DaemonExec ==
    /\ IsSqlite(driver)
    /\ daemon.pc = "exec"
    /\ closing # "done"
    /\ rows' = DelExpiredStmt(rows, Unix(now))
    /\ daemon' = [pc |-> "wait", log |-> "deleted"]
    /\ UNCHANGED <<driver, rlOpts, params, isClosed, closing, calc, now,
                   redisState, pc, loc, nextTok, last, stored, redemptions>>

\* Exec returns an error (it always does once the statement is closed): logged
DaemonExecFail ==
    /\ IsSqlite(driver)
    /\ daemon.pc = "exec"
    /\ daemon' = [pc |-> OnPassError, log |-> "delete failed"]
    /\ UNCHANGED <<driver, rlOpts, params, isClosed, closing, calc, now, sqliteState,
                   redisState, pc, loc, nextTok, last, stored, redemptions>>

\* Exec succeeds, res.RowsAffected() returns an error: logged
DaemonRowsAffectedFail ==
    /\ IsSqlite(driver)
    /\ daemon.pc = "exec"
    /\ closing # "done"
    /\ rows' = DelExpiredStmt(rows, Unix(now))
    /\ daemon' = [pc |-> OnPassError, log |-> "rows affected failed"]
    /\ UNCHANGED <<driver, rlOpts, params, isClosed, closing, calc, now,
                   redisState, pc, loc, nextTok, last, stored, redemptions>>

\* Driver.Close: d.isClosed = true
Close ==
    /\ IsSqlite(driver)
    /\ closing = "no"
    /\ isClosed' = TRUE
    /\ closing' = "flagged"
    /\ UNCHANGED <<driver, rlOpts, params, daemon, calc, now, sqliteState,
                   redisState, pc, loc, nextTok, last, stored, redemptions>>

\* Driver.Close: the statements and the database are closed, and Close returns
CloseStatements ==
    /\ IsSqlite(driver)
    /\ closing = "flagged"
    /\ closing' = "done"
    /\ UNCHANGED <<driver, rlOpts, params, isClosed, daemon, calc, now, sqliteState,
                   redisState, pc, loc, nextTok, last, stored, redemptions>>

InitPrune == InitFor({"sqlite"}) /\ rlOpts = NoRateLimit

NextPrune ==
    \/ DaemonTick
    \/ DaemonCheck
    \/ DaemonExec
    \/ DaemonExecFail
    \/ DaemonRowsAffectedFail
    \/ Close
    \/ CloseStatements
    \/ \E p \in Procs, t \in 1..NInitRows : closing = "no" /\ SqliteUseRedeemToken(p, t)
    \/ Tick

\* the ticker keeps delivering ticks, the goroutine keeps running, every Exec call
\* returns one way or another, and a delete on open statements does not fail for ever
PruneFairness ==
    /\ WF_vars(DaemonTick)
    /\ WF_vars(DaemonCheck)
    /\ WF_vars(DaemonExec \/ DaemonExecFail \/ DaemonRowsAffectedFail)
    /\ SF_vars(DaemonExec)

SpecPrune == InitPrune /\ [][NextPrune]_vars /\ PruneFairness

---------------------------------------------------------------------------
(* The driver in use, asked now *)

\* Cap.VerifyChallengeSolutions: what the fetch of the challenge leads to
VerifyFetch(src) == IF src = NoChallenge THEN "ErrChallengeNotFound" ELSE "verify"

\* Driver.GetUnredeemedChallenge of the driver in use, were it called now
GetNow(challengeToken) ==
    IF IsSqlite(driver) THEN SqliteGetUnredeemedChallenge(rows, challengeToken, now)
    ELSE RedisGetUnredeemedChallenge(chalKeys, challengeToken)

\* Driver.UseRedeemToken of the driver in use, were it called (and run to its end) now
UseNow(redeemToken) ==
    IF IsSqlite(driver) THEN SqliteUseRedeemTokenResult(driver, rows, redeemToken, now)
    ELSE RedisUseRedeemTokenResult(chalKeys, redeemKeys, redeemToken)

\* a UseRedeemToken call on this token is still between its two Redis commands
UseInFlight(redeemToken) ==
    \E p \in Procs : pc[p] = "del" /\ loc[p].c.RedeemToken = redeemToken

---------------------------------------------------------------------------
(* Cap.VerifyChallengeSolutions, called on challenges the server stored earlier *)

\* the Redis entries of challenge i as Store wrote them, ValidDuration before its expiry
InitChallenge(i, exp) ==
    NewChallenge(i, Seconds(exp) - InitValidDuration, InitValidDuration)
InitChalEntry(i, exp) ==
    [c |-> InitChallenge(i, exp),
     ttl |-> SetTTL(Seconds(exp) - InitValidDuration,
                    ExpDur(Seconds(exp) - InitValidDuration, InitChallenge(i, exp)))]
InitRedeemEntry(i, exp) ==
    [ct |-> i,
     ttl |-> SetTTL(Seconds(exp) - InitValidDuration,
                    ExpDur(Seconds(exp) - InitValidDuration, InitChallenge(i, exp)))]

InitSolve ==
    /\ driver \in Drivers
    /\ rlOpts = NoRateLimit
    /\ now = 0
    /\ \E S \in SUBSET (1..NInitRows), f \in [1..NInitRows -> InitExpiries] :
          /\ rows = IF IsSqlite(driver) THEN {InitRow(i, f[i]) : i \in S} ELSE {}
          /\ chalKeys = IF IsSqlite(driver) THEN <<>>
                        ELSE [i \in S |-> InitChalEntry(i, f[i])]
          /\ redeemKeys = IF IsSqlite(driver) THEN <<>>
                          ELSE [i \in S |-> InitRedeemEntry(i, f[i])]
          /\ stored = [t \in TokenIds |-> IF t \in S THEN Seconds(f[t]) ELSE NeverStored]
    /\ limitKeys = <<>>
    /\ pc = [p \in Procs |-> "idle"]
    /\ loc = [p \in Procs |-> NoLoc]
    /\ nextTok = NInitRows + 1
    /\ last = NoCall
    /\ wins = [t \in TokenIds |-> 0]
    /\ ranPending = {}
    /\ wonNotPending = {}
    /\ lost = {}
    /\ params \in ParamChoices
    /\ isClosed = FALSE
    /\ daemon = DaemonStart
    /\ closing = "no"
    /\ calc = NoCalc

\* what an observer knows of the challenge stored under a token
ChallengeClass(tok) ==
    IF stored[tok] = NeverStored THEN "never stored"
    ELSE IF wins[tok] > 0 THEN "redeemed"
    ELSE IF UseInFlight(tok) THEN "redeeming"
    ELSE IF now < stored[tok] THEN "pending"
    ELSE IF now > stored[tok] THEN "expired"
    ELSE "expiring"

\* variant of the fetch that consumes the challenge it returns
AfterGetUnredeemedStmtConsume(rs, challengeToken, unixNow) ==
    {IF r \in GetUnredeemedStmt(rs, challengeToken, unixNow)
     THEN [r EXCEPT !.is_redeemed = 1] ELSE r : r \in rs}

\* getUnredeemedStmt is a SELECT, the Redis fetch a GET: the table and the entries
\* after them
AfterGetUnredeemedStmt(rs, challengeToken, unixNow) == rs
AfterGet(chals, key) == chals

\* Cap.VerifyChallengeSolutions on the driver's state as given
VerifyOn(rs, chals, challengeToken, solutions) ==
    VerifyChallengeSolutions(
        IF IsSqlite(driver) THEN SqliteGetUnredeemedChallenge(rs, challengeToken, now)
        ELSE RedisGetUnredeemedChallenge(chals, challengeToken),
        params, solutions)

\* Cap.UseRedeemToken on the driver's state as given
UseOn(rs, chals, redeems, redeemToken) ==
    IF IsSqlite(driver) THEN SqliteUseRedeemTokenResult(driver, rs, redeemToken, now)
    ELSE RedisUseRedeemTokenResult(chals, redeems, redeemToken)

\* Cap.VerifyChallengeSolutions: the fetch from the driver, the count and the loop.
\* The observation notes the result, whether the driver's state is as it was, what the
\* same call would return next and whether the redeem token handed out would be honoured
Verify(challengeToken, solutions) ==
    /\ {p \in Procs : pc[p] = "idle"} # {}
    /\ rows' = (IF IsSqlite(driver)
                THEN AfterGetUnredeemedStmt(rows, challengeToken, Unix(now)) ELSE rows)
    /\ chalKeys' = (IF IsSqlite(driver) THEN chalKeys
                    ELSE AfterGet(chalKeys, challengeToken))
    /\ LET res == VerifyOn(rows, chalKeys, challengeToken, solutions)
       IN  calc' = [op |-> "Verify",
                    tok |-> challengeToken,
                    solutions |-> solutions,
                    class |-> ChallengeClass(challengeToken),
                    res |-> res,
                    unchanged |-> rows' = rows /\ chalKeys' = chalKeys,
                    again |-> VerifyOn(rows', chalKeys', challengeToken, solutions),
                    useAfter |-> /\ res.err = "nil"
                                 /\ UseOn(rows', chalKeys', redeemKeys,
                                          res.data.RedeemToken)]
    /\ UNCHANGED <<driver, rlOpts, params, isClosed, daemon, closing,
                   now, redeemKeys, limitKeys,
                   pc, loc, nextTok, last, stored, redemptions>>

\* the goroutine that redeems while solutions are verified
Redeemers == {CHOOSE p \in Procs : TRUE}

NextSolve ==
    \/ \E q \in VerifyInputs : q[1] = params /\ Verify(q[2], q[3])
    \/ \E p \in Redeemers, t \in VerifyTokens : SqliteUseRedeemToken(p, t)
    \/ DelExpiredDaemon
    \/ \E p \in Redeemers, t \in VerifyTokens : RedisUseRedeemToken(p, t)
    \/ \E p \in Redeemers : RedisUseRedeemTokenDel(p)
    \/ Tick

SpecSolve == InitSolve /\ [][NextSolve]_vars

---------------------------------------------------------------------------
(* Token collisions: crypto/rand hands CreateChallenge a token that is already in use *)

\* the challenges the driver holds, whatever their state
StoredChallenges ==
    IF IsSqlite(driver)
    THEN {[ChallengeToken |-> r.challenge_token, RedeemToken |-> r.redeem_token,
           Expires |-> Seconds(r.expires_ts)] : r \in rows}
    ELSE {chalKeys[k].c : k \in DOMAIN chalKeys}

\* the challenge a redeem token leads to: the row carrying it, or the entry its
\* redeem-token index points at
RedeemTarget(redeemToken) ==
    IF IsSqlite(driver)
    THEN {c \in StoredChallenges : c.RedeemToken = redeemToken}
    ELSE IF redeemToken \in DOMAIN redeemKeys
         THEN {c \in StoredChallenges : c.ChallengeToken = redeemKeys[redeemToken].ct}
         ELSE {}

\* the goroutine that creates challenges here
Storers == {CHOOSE p \in Procs : TRUE}

\* Cap.CreateChallenge whose two random tokens come out as challengeToken and
\* redeemToken, up to the driver's first write; no IP is passed on.  The observation
\* notes the challenges that carried one of the tokens when the call began
StoreWithTokens(p, challengeToken, redeemToken) ==
    /\ pc[p] = "idle"
    /\ nextTok <= NInitRows + MaxChallenges
    /\ LET c == [ChallengeToken |-> challengeToken, RedeemToken |-> redeemToken,
                 Expires |-> now + InitValidDuration]
       IN  /\ loc' = [loc EXCEPT ![p] = [NoLoc EXCEPT !.c = c]]
           /\ calc' = [op |-> "Store", c |-> c,
                        hit |-> {x \in StoredChallenges :
                                   \/ x.ChallengeToken = challengeToken
                                   \/ x.RedeemToken = redeemToken}]
    /\ pc' = [pc EXCEPT ![p] = IF IsSqlite(driver) THEN "insert" ELSE "set"]
    /\ nextTok' = nextTok + 1
    /\ UNCHANGED <<driver, rlOpts, params, isClosed, daemon, closing,
                   now, sqliteState, redisState,
                   last, stored, redemptions>>

NextCollide ==
    \/ \E p \in Storers, ct \in VerifyTokens, rt \in VerifyTokens : StoreWithTokens(p, ct, rt)
    \/ \E p \in Storers : SqliteStoreInsert(p)
    \/ \E p \in Storers : RedisStoreSetChallenge(p)
    \/ \E p \in Storers : RedisStoreSetRedeem(p)
    \/ Tick

SpecCollide == InitSolve /\ [][NextCollide]_vars

---------------------------------------------------------------------------
(* Backend failures: a statement or command of UseRedeemToken comes back with an error *)

\* the observation left by a UseRedeemToken that returned an error
UseRedeemTokenError(redeemToken) ==
    [NoCall EXCEPT !.op = "UseRedeemToken", !.tok = redeemToken, !.res = "err"]

\* SQLite Driver.UseRedeemToken: ExecContext fails, the update has not run
SqliteUseRedeemTokenExecFail(p, redeemToken) ==
    /\ IsSqlite(driver)
    /\ pc[p] = "idle"
    /\ last' = UseRedeemTokenError(redeemToken)
    /\ UNCHANGED <<config, now, sqliteState, redisState, pc, loc, nextTok, stored,
                   redemptions>>

\* Redis Driver.UseRedeemToken: GETDEL fails with an error other than redis.Nil
RedisUseRedeemTokenGetDelFail(p, redeemToken) ==
    /\ driver = "redis"
    /\ pc[p] = "idle"
    /\ last' = UseRedeemTokenError(redeemToken)
    /\ UNCHANGED <<config, now, sqliteState, redisState, pc, loc, nextTok, stored,
                   redemptions>>

\* Redis Driver.UseRedeemToken: DEL of the challenge entry fails after GETDEL has taken
\* the redeem-token entry
RedisUseRedeemTokenDelFail(p) ==
    /\ driver = "redis"
    /\ pc[p] = "del"
    /\ last' = UseRedeemTokenError(loc[p].c.RedeemToken)
    /\ Done(p)
    /\ UNCHANGED <<config, now, sqliteState, redisState, nextTok, stored, redemptions>>

NextRedeemFault ==
    \/ \E p \in Procs, t \in VerifyTokens : SqliteUseRedeemToken(p, t)
    \/ \E p \in Procs, t \in VerifyTokens : SqliteUseRedeemTokenExecFail(p, t)
    \/ \E p \in Procs, t \in VerifyTokens : RedisUseRedeemToken(p, t)
    \/ \E p \in Procs, t \in VerifyTokens : RedisUseRedeemTokenGetDelFail(p, t)
    \/ \E p \in Procs : RedisUseRedeemTokenDel(p)
    \/ \E p \in Procs : RedisUseRedeemTokenDelFail(p)
    \/ Tick

SpecRedeemFault == InitSolve /\ [][NextRedeemFault]_vars

---------------------------------------------------------------------------
(* The HTTP handlers of cap/server/server.go over the engine *)

Methods == {"POST", "GET"}

\* defaultErrFunc: logs, answers 500 "internal error"
DefaultErrFunc == [status |-> 500, token |-> 0, errFunc |-> TRUE]

\* doJson(status, redeemRes{...}); token 0 stands for the omitted token field
DoJson(status, token) == [status |-> status, token |-> token, errFunc |-> FALSE]

\* variant that answers an insufficient number of solutions like an invalid solution
RedeemResponseInsufficientAs403(method, decodes, res) ==
    IF method # "POST" THEN DoJson(405, 0)
    ELSE IF ~decodes THEN DoJson(400, 0)
    ELSE IF res.err = "ErrChallengeNotFound" THEN DoJson(404, 0)
    ELSE IF res.err = "ErrInsufficientSolutions" THEN DoJson(403, 0)
    ELSE IF res.err = "ErrInvalidSolution" THEN DoJson(403, 0)
    ELSE IF res.err # "nil" THEN DefaultErrFunc
    ELSE DoJson(200, res.data.RedeemToken)

\* Server.RedeemHandler: the answer, given whether the body decodes and what
\* VerifyChallengeSolutions returned (res is looked at only when it was called)
RedeemResponse(method, decodes, res) ==
    IF method # "POST" THEN DoJson(405, 0)
    ELSE IF ~decodes THEN DoJson(400, 0)
    ELSE IF res.err = "ErrChallengeNotFound" THEN DoJson(404, 0)
    ELSE IF res.err = "ErrInsufficientSolutions" THEN DoJson(400, 0)
    ELSE IF res.err = "ErrInvalidSolution" THEN DoJson(403, 0)
    ELSE IF res.err # "nil" THEN DefaultErrFunc
    ELSE DoJson(200, res.data.RedeemToken)

\* Cap.VerifyChallengeSolutions with a driver whose fetch may come back with an error
VerifyOrDriverError(getFails, challengeToken, solutions) ==
    IF getFails THEN [err |-> "driver error", data |-> NoRedeemData, hashed |-> 0]
    ELSE VerifyOn(rows, chalKeys, challengeToken, solutions)

\* Server.RedeemHandler, whole: method check, decoding, VerifyChallengeSolutions, answer.
\* The observation notes whether the engine was called, what it returned, the redeem
\* token of the challenge asked for, and the answer
RedeemHandler(method, decodes, getFails, challengeToken, solutions) ==
    /\ {p \in Procs : pc[p] = "idle"} # {}
    /\ LET called == method = "POST" /\ decodes
           res == IF called THEN VerifyOrDriverError(getFails, challengeToken, solutions)
                  ELSE [err |-> "not called", data |-> NoRedeemData, hashed |-> 0]
       IN  calc' = [op |-> "RedeemHandler", method |-> method, decodes |-> decodes,
                    called |-> called, err |-> res.err,
                    redeemToken |-> res.data.RedeemToken,
                    answer |-> RedeemResponse(method, decodes, res)]
    /\ UNCHANGED <<driver, rlOpts, params, isClosed, daemon, closing, now, sqliteState,
                   redisState, pc, loc, nextTok, last, stored, redemptions>>

\* Server.ChallengeHandler on a request that is not a POST: 405, the engine is not called
ChallengeHandlerNotPost ==
    /\ {p \in Procs : pc[p] = "idle"} # {}
    /\ calc' = [op |-> "ChallengeHandler", method |-> "GET", decodes |-> FALSE,
                called |-> FALSE, err |-> "not called", redeemToken |-> 0,
                answer |-> DoJson(405, 0)]
    /\ UNCHANGED <<driver, rlOpts, params, isClosed, daemon, closing, now, sqliteState,
                   redisState, pc, loc, nextTok, last, stored, redemptions>>

\* the requests to /redeem: every token and solution list as a decodable POST served by
\* a working driver; one request each that is no POST, that does not decode, and whose
\* fetch fails
RedeemRequests ==
    { [ps |-> q[1], method |-> "POST", decodes |-> TRUE, getFails |-> FALSE,
       tok |-> q[2], sols |-> q[3]] : q \in VerifyInputs }
      \cup { [ps |-> q[1], method |-> v[1], decodes |-> v[2], getFails |-> v[3],
              tok |-> q[2], sols |-> q[3]]
              : q \in {x \in VerifyInputs : x[2] = 1 /\ x[3] = <<>>},
                v \in {<<"GET", TRUE, FALSE>>, <<"POST", FALSE, FALSE>>,
                       <<"POST", TRUE, TRUE>>} }

\* the goroutine that serves the POSTs to /challenge
Servers == {CHOOSE p \in Procs : TRUE}

NextHttp ==
    \/ \E p \in Servers : SqliteStore(p)
    \/ \E p \in Servers : SqliteStoreInsert(p)
    \/ \E p \in Servers : SqliteStoreCountFail(p)
    \/ \E p \in Servers : RedisStore(p)
    \/ \E p \in Servers : RedisStoreExpire(p)
    \/ \E p \in Servers : RedisStoreSetChallenge(p)
    \/ \E p \in Servers : RedisStoreSetRedeem(p)
    \/ \E p \in Servers : RedisStoreIncrFail(p)
    \/ \E p \in Servers : RedisStoreSetChallengeFail(p)
    \/ ChallengeHandlerNotPost
    \/ \E r \in RedeemRequests :
          r.ps = params /\ RedeemHandler(r.method, r.decodes, r.getFails, r.tok, r.sols)
    \/ Tick

SpecHttp == Init /\ [][NextHttp]_vars

---------------------------------------------------------------------------
(* The challenge parameters on their way through a driver and back *)

\* SQLite Store: p.Difficulty, p.Count, p.SaltSize are bound to the third, fourth and
\* fifth column of insertStmt
SqliteParamColumns(ps) ==
    [challenge_difficulty |-> ps.Difficulty, challenge_count |-> ps.Count,
     challenge_salt_size |-> ps.SaltSize]

\* SQLite GetUnredeemedChallenge: the scanned columns put into cap.ChallengeParams
SqliteScanParams(cols) ==
    [Difficulty |-> cols.challenge_difficulty, Count |-> cols.challenge_count,
     SaltSize |-> cols.challenge_salt_size]

\* Redis Store: gob writes the fields of the struct that are not zero
GobEncodeParams(ps) ==
    {f \in {<<"Difficulty", ps.Difficulty>>, <<"Count", ps.Count>>,
            <<"SaltSize", ps.SaltSize>>} : f[2] # 0}

\* Redis GetUnredeemedChallenge: gob fills the fields it finds into a zero struct
GobDecodeParams(enc) ==
    LET Field(name) == IF \E f \in enc : f[1] = name
                       THEN (CHOOSE f \in enc : f[1] = name)[2] ELSE 0
    IN  [Difficulty |-> Field("Difficulty"), Count |-> Field("Count"),
         SaltSize |-> Field("SaltSize")]

\* the parameters GetUnredeemedChallenge returns for a challenge stored with ps
FetchedParams(d, ps) ==
    IF IsSqlite(d) THEN SqliteScanParams(SqliteParamColumns(ps))
    ELSE GobDecodeParams(GobEncodeParams(ps))

---------------------------------------------------------------------------
(* NewHeaderIPExtractor of the server package on header values of its own *)

\* the longest comma-separated list among the header values
MaxEntries == 3

\* a string is the sequence of its bytes, each written as a one-character string
DigitString == <<"0", "1", "2", "3", "4", "5", "6", "7", "8", "9">>
IsDigit(ch) == \E i \in 1..10 : DigitString[i] = ch
DigitValue(ch) == (CHOOSE i \in 1..10 : DigitString[i] = ch) - 1

\* strings.IndexByte: the index of the first c in s counted from 0, or -1
IndexByte(s, c) ==
    IF \E i \in 1..Len(s) : s[i] = c
    THEN (CHOOSE i \in 1..Len(s) : s[i] = c /\ \A j \in 1..(i - 1) : s[j] # c) - 1
    ELSE -1

\* s[:hi] of Go: the first hi bytes, or a panic when hi is beyond the length
SliceTo(s, hi) ==
    IF hi > Len(s) THEN [panics |-> TRUE, str |-> <<>>]
    ELSE [panics |-> FALSE, str |-> SubSeq(s, 1, hi)]

\* the loop of netip's IPv4 parser from byte i on (i counted from 1): the four fields,
\* or <<>> for an error
RECURSIVE ParseIPv4Fields(_, _, _, _, _)
ParseIPv4Fields(s, i, val, digLen, fields) ==
    IF i > Len(s)
    THEN IF Len(fields) < 3 THEN <<>> ELSE Append(fields, val)
    ELSE IF IsDigit(s[i])
         THEN IF digLen = 1 /\ val = 0 THEN <<>>
              ELSE IF val * 10 + DigitValue(s[i]) > 255 THEN <<>>
              ELSE ParseIPv4Fields(s, i + 1, val * 10 + DigitValue(s[i]), digLen + 1,
                                   fields)
         ELSE IF s[i] = "."
              THEN IF i = 1 \/ i = Len(s) \/ s[i - 1] = "." \/ Len(fields) = 3 THEN <<>>
                   ELSE ParseIPv4Fields(s, i + 1, 0, 0, Append(fields, val))
              ELSE <<>>

\* netip.ParseAddr on strings without ':' and '%': NilAddr stands for the error return
ParseAddr(s) ==
    IF IndexByte(s, ".") = -1 THEN NilAddr
    ELSE IF ParseIPv4Fields(s, 1, 0, 0, <<>>) = <<>> THEN NilAddr
    ELSE [ver |-> 4, bytes |-> ParseIPv4Fields(s, 1, 0, 0, <<>>)]

\* the function NewHeaderIPExtractor returns, called on a request whose header is
\* present with value val, or absent: `str` is still empty when it is sliced
HeaderIPExtractor(present, val) ==
    IF ~present \/ val = <<>> THEN [panics |-> FALSE, addr |-> NilAddr]
    ELSE IF IndexByte(val, ",") = -1
         THEN [panics |-> FALSE, addr |-> ParseAddr(val)]
         ELSE IF SliceTo(<<>>, IndexByte(val, ",")).panics
              THEN [panics |-> TRUE, addr |-> NilAddr]
              ELSE [panics |-> FALSE,
                    addr |-> ParseAddr(SliceTo(<<>>, IndexByte(val, ",")).str)]

\* list entries: two addresses, a field above 255, a name, nothing, an address after
\* a blank, three fields only, a leading zero
HeaderEntries ==
    { <<"1", "0", ".", "0", ".", "0", ".", "1">>,
      <<"1", "0", ".", "0", ".", "0", ".", "2">>,
      <<"2", "5", "6", ".", "0", ".", "0", ".", "1">>,
      <<"x">>,
      <<>>,
      <<" ", "1", "0", ".", "0", ".", "0", ".", "2">>,
      <<"1", "0", ".", "0", ".", "1">>,
      <<"0", "1", ".", "0", ".", "0", ".", "1">> }

\* the entries joined by commas
RECURSIVE JoinEntries(_)
JoinEntries(es) ==
    IF Len(es) = 1 THEN es[1] ELSE es[1] \o <<",">> \o JoinEntries(Tail(es))

HeaderValues ==
    { JoinEntries(es) : es \in UNION { [1..n -> HeaderEntries] : n \in 1..MaxEntries } }

HeaderInputs ==
    { [op |-> "header input", present |-> TRUE, val |-> v] : v \in HeaderValues }
    \cup { [op |-> "header input", present |-> FALSE, val |-> <<>>] }

InitHeader == InitPure(HeaderInputs)

\* the extractor is called on the request
ApplyHeaderIPExtractor ==
    /\ calc.op = "header input"
    /\ calc' = [op |-> "HeaderIPExtractor", present |-> calc.present, val |-> calc.val,
                panics |-> HeaderIPExtractor(calc.present, calc.val).panics,
                addr |-> HeaderIPExtractor(calc.present, calc.val).addr]
    /\ UNCHANGED <<driver, rlOpts, params, isClosed, daemon, closing, now, sqliteState,
                   redisState, pc, loc, nextTok, last, stored, redemptions>>

NextHeader == ApplyHeaderIPExtractor

SpecHeader == InitHeader /\ [][NextHeader]_vars

---------------------------------------------------------------------------
(* DoMigrations of standalone/migration/migration.go, one database call at a time *)

\* the length of the list `migrations` and the number of DoMigrations runs
NMigrations == 2
MaxRuns == 3

Migrations == 1..NMigrations

\* the database: the names in table `migration` and, for every migration, how many
\* committed transactions hold its Apply
EmptyDb == [table |-> {}, applied |-> [m \in Migrations |-> 0]]

\* db.Begin: a transaction that has written nothing
NoTx == [schema |-> FALSE, name |-> FALSE]

\* variant whose rollback leaves the statements of Apply in the database
RollbackKeepsApply(db, tx, m) ==
    [db EXCEPT !.applied[m] = @ + (IF tx.schema THEN 1 ELSE 0)]

\* tx.Rollback: the database as it was at Begin
Rollback(db, tx, m) == db

\* tx.Commit: the writes of the transaction of migration m become part of the database
Commit(db, tx, m) ==
    [table |-> db.table \cup (IF tx.name THEN {m} ELSE {}),
     applied |-> [db.applied EXCEPT ![m] = @ + (IF tx.schema THEN 1 ELSE 0)]]

MigrationStart ==
    [op |-> "DoMigrations", pc |-> "returned", runs |-> 0, db |-> EmptyDb, tx |-> NoTx,
     appliedNames |-> {}, i |-> 1, ret |-> "none", at |-> 0, ranApply |-> {}]

InitMigrate == InitPure({MigrationStart})

OthersUnchanged ==
    UNCHANGED <<driver, rlOpts, params, isClosed, daemon, closing, now, sqliteState,
                redisState, pc, loc, nextTok, last, stored, redemptions>>

\* return err / return nil
MigReturn(c, err) == [c EXCEPT !.pc = "returned", !.ret = err, !.at = c.i, !.tx = NoTx]

\* DoMigrations is called
MigCall ==
    /\ calc.pc = "returned"
    /\ calc.runs < MaxRuns
    /\ calc' = [calc EXCEPT !.pc = "create", !.runs = @ + 1, !.i = 1, !.ret = "none",
                            !.at = 0, !.appliedNames = {}, !.ranApply = {}]
    /\ OthersUnchanged

\* create table if not exists migration
MigCreateTable ==
    /\ calc.pc = "create"
    /\ \/ calc' = [calc EXCEPT !.pc = "query"]
       \/ calc' = MigReturn(calc, "create failed")
    /\ OthersUnchanged

\* select name from migration, collected into appliedNames
MigQuery ==
    /\ calc.pc = "query"
    /\ \/ calc' = [calc EXCEPT !.pc = "loop", !.appliedNames = calc.db.table]
       \/ calc' = MigReturn(calc, "query failed")
    /\ OthersUnchanged

\* the head of the for loop: the end of the list, a migration already applied, or
\* db.Begin for the next one
MigLoop ==
    /\ calc.pc = "loop"
    /\ IF calc.i > NMigrations THEN calc' = MigReturn(calc, "nil")
       ELSE IF calc.i \in calc.appliedNames THEN calc' = [calc EXCEPT !.i = @ + 1]
       ELSE \/ calc' = [calc EXCEPT !.pc = "apply", !.tx = NoTx]
            \/ calc' = MigReturn(calc, "begin failed")
    /\ OthersUnchanged

\* m.Apply(tx); on an error the transaction is rolled back and the error returned
MigApply ==
    /\ calc.pc = "apply"
    /\ \/ calc' = [calc EXCEPT !.pc = "record", !.tx.schema = TRUE,
                               !.ranApply = @ \cup {calc.i}]
       \/ \E partly \in BOOLEAN :
            calc' = [MigReturn(calc, "apply failed") EXCEPT
                        !.db = Rollback(calc.db, [calc.tx EXCEPT !.schema = partly],
                                        calc.i),
                        !.ranApply = @ \cup {calc.i}]
    /\ OthersUnchanged

\* insert into migration (name); on an error the transaction is rolled back
MigRecord ==
    /\ calc.pc = "record"
    /\ \/ calc' = [calc EXCEPT !.pc = "commit", !.tx.name = TRUE]
       \/ calc' = [MigReturn(calc, "insert failed") EXCEPT
                      !.db = Rollback(calc.db, calc.tx, calc.i)]
    /\ OthersUnchanged

\* tx.Commit; a failed commit leaves nothing of the transaction behind
MigCommit ==
    /\ calc.pc = "commit"
    /\ \/ calc' = [calc EXCEPT !.pc = "loop", !.db = Commit(calc.db, calc.tx, calc.i),
                               !.tx = NoTx, !.i = @ + 1]
       \/ calc' = MigReturn(calc, "commit failed")
    /\ OthersUnchanged

NextMigrate ==
    \/ MigCall
    \/ MigCreateTable
    \/ MigQuery
    \/ MigLoop
    \/ MigApply
    \/ MigRecord
    \/ MigCommit

SpecMigrate == InitMigrate /\ [][NextMigrate]_vars

---------------------------------------------------------------------------
(* Properties *)

\* C1: among the UseRedeemToken calls carrying the redeem token of one pending
\* challenge, however they interleave, exactly one returns true: never more than one,
\* and one as soon as the calls that reached the backend while it was pending have
\* returned; all the others return false.
C1_SingleUseRedemption ==
    \A rt \in TokenIds :
        /\ wins[rt] <= 1
        /\ (rt \in ranPending /\ ~UseInFlight(rt)) => wins[rt] = 1

\* a pending token was redeemed once and another call on it was refused
C1_Witness ==
    \E rt \in TokenIds : rt \in ranPending /\ wins[rt] = 1 /\ rt \in lost

\* C2: once UseRedeemToken has returned true for a redeem token, in every later state
\* UseRedeemToken with it returns false and GetUnredeemedChallenge for the challenge
\* returns nil, so that VerifyChallengeSolutions returns ErrChallengeNotFound.
C2_RedeemedIsFinal ==
    \A tok \in TokenIds :
        wins[tok] >= 1 =>
            /\ ~UseNow(tok)
            /\ GetNow(tok) = NoChallenge
            /\ VerifyFetch(GetNow(tok)) = "ErrChallengeNotFound"

\* a token was redeemed and its challenge's expiry time has not passed yet
C2_Witness ==
    \E tok \in TokenIds : wins[tok] = 1 /\ stored[tok] # NeverStored /\ now < stored[tok]

\* C3: the draft SQLite driver's UseRedeemToken returns true only for a challenge that
\* is unredeemed and not yet expired, and the first call on such a challenge returns
\* true.
C3_DraftRedeemsOnlyPending ==
    driver = "sqlite_draft" =>
        /\ wonNotPending = {}
        /\ \A rt \in ranPending : wins[rt] >= 1

\* C4: on the SQLite driver, GetUnredeemedChallenge for a stored, never redeemed
\* challenge returns nil in every state after its expiry time, whether the pruning
\* daemon has deleted the row or not.
C4_SqliteExpiry ==
    driver = "sqlite" =>
        \A ct \in TokenIds :
            (stored[ct] # NeverStored /\ wins[ct] = 0 /\ now > stored[ct]) =>
                SqliteGetUnredeemedChallenge(rows, ct, now) = NoChallenge

\* an unredeemed row past its expiry time that the daemon has not deleted yet
C4_Witness ==
    /\ driver = "sqlite"
    /\ \E r \in rows : /\ r.is_redeemed = 0
                       /\ wins[r.challenge_token] = 0
                       /\ now > Seconds(r.expires_ts)

\* C5: on the Redis driver the challenge entry and the redeem-token entry of a
\* challenge that is still valid carry a time-to-live that ends at Expires, and once
\* Expires has passed GetUnredeemedChallenge returns nil and UseRedeemToken returns
\* false.
C5_RedisExpiry ==
    driver = "redis" =>
        /\ \A ct \in DOMAIN chalKeys :
               chalKeys[ct].c.Expires > now => chalKeys[ct].ttl = chalKeys[ct].c.Expires
        /\ \A tok \in TokenIds :
               (stored[tok] # NeverStored /\ now > stored[tok]) =>
                   /\ RedisGetUnredeemedChallenge(chalKeys, tok) = NoChallenge
                   /\ ~RedisUseRedeemTokenResult(chalKeys, redeemKeys, tok)

\* C6: on the SQLite driver a Store that entered the rate-limit block gets past it only
\* while fewer than MaxChallengesPerIP challenges of its truncated IP lie in the window.
C6_SqliteThreshold ==
    IsSqlite(driver) =>
        \A p \in Procs :
            (pc[p] = "insert" /\ loc[p].rl) => loc[p].inWin < rlOpts.MaxChallengesPerIP

\* C7: on the SQLite driver a Store is rate-limited only if some challenge of its
\* truncated IP was created within the trailing window.
C7_SqliteWindow ==
    (IsSqlite(driver) /\ last.op = "Store" /\ last.res = "ratelimited") => last.near > 0

\* C8: on the Redis driver, within the lifetime of one rate-limit counter at most
\* MaxChallengesPerIP Store calls of its key pass the rate-limit check, however the
\* calls interleave, and a call that reads a higher count returns ErrRateLimited.
C8_RedisRateLimit ==
    driver = "redis" =>
        /\ \A k \in DOMAIN limitKeys : limitKeys[k].passed <= rlOpts.MaxChallengesPerIP
        /\ (last.op = "Store" /\ last.rl /\ last.res # "err"
              /\ last.cnt > rlOpts.MaxChallengesPerIP) => last.res = "ratelimited"
        /\ \A p \in Procs :
               (pc[p] \in {"set", "set2"} /\ loc[p].rl) =>
                   loc[p].cnt <= rlOpts.MaxChallengesPerIP

\* a counter that has let MaxChallengesPerIP calls through and refused a further one
C8_Witness ==
    /\ driver = "redis"
    /\ last.op = "Store" /\ last.res = "ratelimited"
    /\ \E k \in DOMAIN limitKeys :
           /\ limitKeys[k].passed = rlOpts.MaxChallengesPerIP
           /\ limitKeys[k].n > rlOpts.MaxChallengesPerIP

\* C9: a Store that returned an error, ErrRateLimited included, has persisted no
\* challenge: GetUnredeemedChallenge for its challenge token returns nil, UseRedeemToken
\* for its redeem token returns false, and the caller got no Challenge (no 200).
C9_FailedStorePersistsNothing ==
    (last.op = "Store" /\ last.res # "ok") =>
        /\ GetNow(last.tok) = NoChallenge
        /\ ~UseNow(last.tok)
        /\ last.tok \notin DOMAIN chalKeys
        /\ last.tok \notin DOMAIN redeemKeys
        /\ \A r \in rows : r.challenge_token # last.tok /\ r.redeem_token # last.tok
        /\ stored[last.tok] = NeverStored
        /\ last.status # 200

\* a Store was refused by the rate limit
C9_Witness ==
    /\ last.op = "Store"
    /\ last.res = "ratelimited"
    /\ last.status = 429

\* C10: with a nil client IP, Store skips the rate-limit block whatever the
\* configuration: it never returns ErrRateLimited and touches no counter; a server
\* without an IP extractor therefore never answers 429.
C10_NilIPSkipsRateLimit ==
    /\ (last.op = "Store" /\ last.ipNil) => (last.res # "ratelimited" /\ ~last.rl)
    /\ (last.op = "Store" /\ ~last.ipFunc) => (last.ipNil /\ last.status # 429)
    /\ \A p \in Procs :
           (pc[p] \in {"insert", "expire", "set", "set2"} /\ loc[p].ipNil) => ~loc[p].rl
    /\ \A k \in DOMAIN limitKeys : k[1] \in {4, 6}

\* a Store with a nil IP went through although the limit of a configured rate limit
\* was already used up
C10_Witness ==
    /\ last.op = "Store" /\ last.ipNil /\ ~last.ipFunc
    /\ rlOpts.on
    /\ \/ \E k \in DOMAIN limitKeys : limitKeys[k].n > rlOpts.MaxChallengesPerIP
       \/ Cardinality(rows) > rlOpts.MaxChallengesPerIP

\* the latest call was VerifyChallengeSolutions
Verified == calc.op = "Verify"

\* every one of the first params.Count solutions of the latest call meets its target
AllPass ==
    \A i \in 1..params.Count :
        SolutionPasses(params, calc.tok, i, calc.solutions[i])

\* C11: VerifyChallengeSolutions leaves the driver's state as it found it whatever it
\* returns: the same call repeated with nothing in between returns the same result, and
\* after a successful verification a UseRedeemToken of the returned token, the first for
\* that token, returns true
C11_VerifyLeavesStateUnchanged ==
    Verified =>
        /\ calc.unchanged
        /\ calc.again = calc.res
        /\ (calc.res.err = "nil" /\ calc.class \notin {"redeemed", "redeeming"}
               => calc.useAfter)

C11_Witness ==
    /\ Verified
    /\ driver = "redis"
    /\ params.Count = MaxCount
    /\ calc.class = "pending"
    /\ calc.res.err = "nil"
    /\ calc.useAfter
    /\ wins[calc.tok] = 1

\* C12: for a pending challenge and at least params.Count solutions,
\* VerifyChallengeSolutions returns the redeem data (the stored redeem token and expiry)
\* exactly when every i in 1..Count has the hash of salt_i followed by the decimal
\* solutions[i] start with target_i, and ErrInvalidSolution otherwise
C12_SolutionsDecideTheResult ==
    (Verified /\ calc.class = "pending" /\ Len(calc.solutions) >= params.Count) =>
        IF AllPass
        THEN /\ calc.res.err = "nil"
             /\ calc.res.data = [RedeemToken |-> calc.tok, Expires |-> stored[calc.tok]]
        ELSE /\ calc.res.err = "ErrInvalidSolution"
             /\ calc.res.data = NoRedeemData

C12_Witness ==
    /\ Verified
    /\ calc.class = "pending"
    /\ params.Count = MaxCount
    /\ Len(calc.solutions) >= params.Count
    /\ SolutionPasses(params, calc.tok, 1, calc.solutions[1])
    /\ ~SolutionPasses(params, calc.tok, MaxCount, calc.solutions[MaxCount])
    /\ calc.res.err = "ErrInvalidSolution"

\* C13: for a pending challenge, fewer solutions than params.Count always give
\* ErrInsufficientSolutions, whether or not the ones given are correct, and no hash is
\* computed
C13_TooFewSolutions ==
    (Verified /\ calc.class = "pending" /\ Len(calc.solutions) < params.Count) =>
        /\ calc.res.err = "ErrInsufficientSolutions"
        /\ calc.res.hashed = 0

C13_Witness ==
    /\ Verified
    /\ calc.class = "pending"
    /\ Len(calc.solutions) = 1
    /\ params.Count = MaxCount
    /\ SolutionPasses(params, calc.tok, 1, calc.solutions[1])
    /\ calc.res.err = "ErrInsufficientSolutions"

\* C14: for a token never stored, one whose challenge has expired and one whose
\* challenge was redeemed, VerifyChallengeSolutions returns ErrChallengeNotFound
\* whatever the solutions
C14_NotFoundForAllThree ==
    (Verified /\ calc.class \in {"never stored", "expired", "redeemed"}) =>
        calc.res.err = "ErrChallengeNotFound"

\* C15: on Redis, Store returns nil only when both entries, the challenge record and the
\* redeem-token index, were written: a failure to write either one is returned as an
\* error.  Stated for a challenge still valid when Store returns, whose entries cannot
\* have run out in between
C15_RedisStoreNilMeansBothWritten ==
    [][ (/\ driver = "redis"
         /\ last' # last /\ last'.op = "Store" /\ last'.res = "ok"
         /\ now' < stored'[last'.tok])
          => /\ last'.tok \in DOMAIN chalKeys'
             /\ last'.tok \in DOMAIN redeemKeys' ]_vars

\* the latest CreateChallenge has returned
StoreReturned ==
    /\ calc.op = "Store"
    /\ \A p \in Storers : pc[p] = "idle"
    /\ last.op = "Store"

\* C16: in every driver a Store whose challenge token or redeem token is that of a
\* challenge already stored returns an error and leaves that challenge and its redeem
\* token as they were, and no two stored challenges share a challenge token or a redeem
\* token
C16_CollisionsFailTheStore ==
    /\ (StoreReturned /\ calc.hit # {}) =>
          /\ last.res # "ok"
          /\ \A x \in calc.hit : x \in StoredChallenges /\ RedeemTarget(x.RedeemToken) = {x}
    /\ \A x \in StoredChallenges, y \in StoredChallenges :
          x # y => /\ x.ChallengeToken # y.ChallengeToken
                   /\ x.RedeemToken # y.RedeemToken

\* the cap_challenge row of a challenge token, if there is one
RowOf(tok) == {r \in rows : r.challenge_token = tok}

\* a pruning pass has just ended with one of the two error log lines
PassFailed ==
    /\ daemon.pc = "exec"
    /\ daemon'.pc # "exec"
    /\ daemon'.log \in {"delete failed", "rows affected failed"}

\* C17: while the SQLite driver is open, every tick of the pruning loop issues one
\* delete that removes all rows whose expires_ts has passed, so every expired row is
\* eventually removed
C17_ExpiredRowsArePruned ==
    /\ [][ (daemon.pc = "check" /\ ~isClosed /\ daemon'.pc # "check")
              => daemon'.pc = "exec" ]_vars
    /\ [][ (daemon.pc = "exec" /\ daemon'.pc # "exec" /\ daemon'.log = "deleted")
              => rows' = {r \in rows : r.expires_ts >= Unix(now)} ]_vars
    /\ \A tok \in 1..NInitRows :
          (~isClosed /\ \E r \in RowOf(tok) : r.expires_ts < Unix(now))
             ~> (isClosed \/ RowOf(tok) = {})

C17_Witness ==
    /\ ~isClosed
    /\ daemon.log = "deleted"
    /\ \E tok \in 1..NInitRows :
          /\ stored[tok] # NeverStored
          /\ stored[tok] < now
          /\ RowOf(tok) = {}

C19_CloseStopsThePruningLoop ==
    /\ [][ (isClosed /\ daemon.pc = "check") => daemon'.pc # "exec" ]_vars
    /\ (isClosed ~> daemon.pc = "exited")

\* the two addresses agree in each of their first n bits
SameLeadingBits(a, b, n) == \A k \in 0..(n - 1) : AddrBit(a, k) = AddrBit(b, k)

\* C20: two addresses of the same version that differ only in bits beyond the
\* significant-bit count (IPv4 0..32, IPv6 0..64) get the same (version, integer) key
\* from IpToInt64
C20_IpTruncation ==
    (/\ calc.op = "IpToInt64"
     /\ calc.a.ver = calc.b.ver
     /\ SameLeadingBits(calc.a, calc.b, calc.bits))
        => calc.keyA = calc.keyB

C20_Witness ==
    /\ calc.op = "IpToInt64"
    /\ calc.a.ver = 6
    /\ calc.a # calc.b
    /\ calc.bits % 8 # 0
    /\ SameLeadingBits(calc.a, calc.b, calc.bits)
    /\ ~SameLeadingBits(calc.a, calc.b, calc.bits + 1)
    /\ calc.keyA = calc.keyB

\* both significant-bit counts are inside their documented ranges
InBounds(v4, v6) == v4 \in 0..MaxV4Bits /\ v6 \in 0..MaxV6Bits

\* C21: IpToInt64 panics exactly when a significant-bit count is out of bounds (IPv4
\* outside 0..32, IPv6 outside 0..64)
C21_PanicsExactlyOutOfBounds ==
    calc.op = "IpToInt64 bounds" => (calc.panics <=> ~InBounds(calc.v4, calc.v6))

\* the half of C21 that the code keeps: no panic when both counts are in bounds
C21_NoPanicInBounds ==
    (calc.op = "IpToInt64 bounds" /\ InBounds(calc.v4, calc.v6)) => ~calc.panics

\* the code units of 0-9 and a-f
HexAlphabet == (48..57) \cup (97..102)

\* C22: for every seed and every length >= 0 prng returns after finitely many rounds of
\* its loop (one per 8 characters) a string of exactly `length` characters, each of
\* 0-9a-f, and a second call with the same seed and length returns the same string
C22_PrngShapeAndDeterminism ==
    /\ calc.op \in {"prng", "prng twice"} =>
          /\ Len(calc.out) = calc.length
          /\ \A i \in 1..Len(calc.out) : calc.out[i] \in HexAlphabet
          /\ calc.rounds = (calc.length + 7) \div 8
    /\ calc.op = "prng twice" => calc.again = calc.out

C22_Witness ==
    /\ calc.op = "prng twice"
    /\ calc.length = MaxPrngLen - 3
    /\ calc.seed = <<97, 128512, 8364>>
    /\ Len(calc.again) = calc.length
    /\ \E i \in 1..Len(calc.out) : calc.out[i] \in 97..102

\* The algorithm as C23 words it, on 32-bit values held as the set of their 1-bits
\* (bit 0 the least significant): shifts move the set, exclusive or is the symmetric
\* difference, and FNV-1a multiplies by the prime

\* the FNV prime 16777619 = 0x01000193
FnvPrime == 16777619

RefBits(w) ==
    {i \in 0..15 : (w.lo \div (2 ^ i)) % 2 = 1}
      \cup {i + 16 : i \in {j \in 0..15 : (w.hi \div (2 ^ j)) % 2 = 1}}

RECURSIVE RefValue(_, _, _)
\* the number whose 1-bits are those of `bits` in from..(from + 15), counted from `from`
RefValue(bits, from, i) ==
    IF i > 15 THEN 0
    ELSE (IF (from + i) \in bits THEN 2 ^ i ELSE 0) + RefValue(bits, from, i + 1)

RefWord(bits) == Word(RefValue(bits, 16, 0), RefValue(bits, 0, 0))

RefShl(bits, k) == {i + k : i \in bits} \cap (0..31)
RefShr(bits, k) == {i - k : i \in bits} \cap (0..31)
RefXor(a, b) == (a \ b) \cup (b \ a)

\* x ^= x << 13; x ^= x >> 17; x ^= x << 5
RefXorShift(x) ==
    LET a == RefXor(x, RefShl(x, 13))
        b == RefXor(a, RefShr(a, 17))
    IN  RefXor(b, RefShl(b, 5))

\* w * m modulo 2^32, for m whose low half is below 2^15
RefMul(w, m) ==
    LET mh == m \div Half
        ml == m % Half
    IN  Word(w.hi * ml + w.lo * mh + (w.lo * ml) \div Half, w.lo * ml)

RECURSIVE RefFnv(_, _, _)
\* FNV-1a: for each code unit, exclusive or and then multiplication by the prime
RefFnv(hash, units, i) ==
    IF i > Len(units) \/ ~IsWord(hash) THEN hash
    ELSE RefFnv(RefMul(RefWord(RefXor(RefBits(hash), RefBits(Word(0, units[i])))), FnvPrime),
                units, i + 1)

\* the 8 lower-case hexadecimal digits of a value, most significant first
RefHexDigits == <<48, 49, 50, 51, 52, 53, 54, 55, 56, 57, 97, 98, 99, 100, 101, 102>>
RefNibble(bits, n) ==
    (IF (4 * n) \in bits THEN 1 ELSE 0) + (IF (4 * n + 1) \in bits THEN 2 ELSE 0)
      + (IF (4 * n + 2) \in bits THEN 4 ELSE 0) + (IF (4 * n + 3) \in bits THEN 8 ELSE 0)
RefHex8(bits) == [j \in 1..8 |-> RefHexDigits[RefNibble(bits, 8 - j) + 1]]

RECURSIVE RefStream(_, _, _)
\* the renderings of the successive states after `state`, until `length` is reached
RefStream(state, result, length) ==
    IF Len(result) < length /\ Cardinality(state) >= 0
    THEN RefStream(RefXorShift(state), result \o RefHex8(RefXorShift(state)), length)
    ELSE result

RefPrng(units, length) ==
    SubSeq(RefStream(RefBits(RefFnv(FnvOffsetBasis, units, 1)), <<>>, length), 1, length)

RECURSIVE DecDigits(_)
\* the decimal digits of a 32-bit value given by its halves
DecDigits(w) ==
    LET qhi == w.hi \div 10
        rest == (w.hi % 10) * Half + w.lo
        q == [hi |-> qhi, lo |-> rest \div 10]
    IN  IF w.hi = 0 /\ w.lo < 10 THEN <<w.lo>>
        ELSE DecDigits(q) \o <<rest % 10>>

\* C23: prng's output is FNV-1a (offset basis 2166136261, multiplication by 16777619
\* modulo 2^32) over the seed's UTF-16 code units, followed by the concatenated 8-digit
\* lower-case hexadecimal renderings of the successive xorshift32 states (13, 17, 5),
\* truncated to the length
C23_PrngAlgorithm ==
    /\ DecDigits(FnvOffsetBasis) = <<2, 1, 6, 6, 1, 3, 6, 2, 6, 1>>
    /\ calc.op = "prng" =>
          /\ calc.out = RefPrng(Utf16Encode(calc.seed), calc.length)
          /\ (calc.seed = <<49, 49>> /\ calc.length = 9)
                => calc.out = <<52, 98, 97, 102, 49, 52, 102, 102, 56>>

C23_Witness ==
    /\ calc.op = "prng"
    /\ calc.seed = <<97, 128512, 8364>>
    /\ Len(Utf16Encode(calc.seed)) = 4
    /\ calc.length = 21
    /\ calc.out = RefPrng(Utf16Encode(calc.seed), 21)
    /\ calc.out # RefPrng(<<97, 128512, 8364>>, 21)

\* C24: ChallengeHandler answers 429 exactly when CreateChallenge failed with
\* ErrRateLimited and 500 (the default error handler) for every other error;
\* RedeemHandler answers 404 for ErrChallengeNotFound, 400 for ErrInsufficientSolutions
\* or an undecodable body, 403 for ErrInvalidSolution, the error handler for any other
\* error, and 200 with the redeem token only when VerifyChallengeSolutions succeeded
C24_HttpOutcomeMapping ==
    /\ last.op = "Store" =>
          /\ last.status = 429 <=> last.res = "ratelimited"
          /\ last.res \notin {"ok", "ratelimited"} => last.status = 500
          /\ last.res = "ok" => last.status = 200
    /\ (calc.op = "RedeemHandler" /\ calc.method = "POST") =>
          /\ calc.answer.status = 404 <=> calc.err = "ErrChallengeNotFound"
          /\ calc.answer.status = 400 <=>
                (~calc.decodes \/ calc.err = "ErrInsufficientSolutions")
          /\ calc.answer.status = 403 <=> calc.err = "ErrInvalidSolution"
          /\ calc.answer.errFunc <=>
                (calc.called /\ calc.err \notin {"nil", "ErrChallengeNotFound",
                                                 "ErrInsufficientSolutions",
                                                 "ErrInvalidSolution"})
          /\ calc.answer.errFunc => calc.answer.status = 500
    /\ calc.op = "RedeemHandler" =>
          /\ calc.answer.status = 200 <=> (calc.called /\ calc.err = "nil")
          /\ calc.answer.status = 200 =>
                (calc.answer.token = calc.redeemToken /\ calc.redeemToken # 0)
          /\ calc.answer.status # 200 => calc.answer.token = 0

C24_Witness ==
    /\ last.op = "Store"
    /\ last.status = 429
    /\ calc.op = "RedeemHandler"
    /\ calc.answer.status = 200
    /\ calc.answer.token # 0

\* where a goroutine stands inside Driver.Store
StorePcs == {"insert", "expire", "set", "set2"}

\* C25: CreateChallenge returns a Challenge exactly when Store returned nil, and it is
\* the challenge it built (expiry = now + ValidDuration) and passed to Store; otherwise
\* it returns nil and Store's own error, so that ErrRateLimited is answered with 429
C25_CreateChallengeReturn ==
    /\ [](last.op = "Store" =>
            /\ last.ret.challenge # NoChallenge <=> last.res = "ok"
            /\ last.ret.err = last.res
            /\ last.res = "ok" => last.ret.challenge.ChallengeToken = last.tok
            /\ last.res = "ratelimited" => last.status = 429)
    /\ [][\A p \in Procs :
            /\ (pc[p] = "idle" /\ pc'[p] \in StorePcs) =>
                  /\ loc'[p].c.Expires \in {now + d : d \in ValidDurations}
                  /\ loc'[p].c.ChallengeToken = nextTok
            /\ (pc[p] \in StorePcs /\ pc'[p] \in StorePcs) => loc'[p].c = loc[p].c
            /\ (pc[p] \in StorePcs /\ pc'[p] = "idle" /\ last'.res = "ok") =>
                  /\ last'.ret.challenge = loc[p].c
                  /\ last'.tok \in DOMAIN chalKeys' =>
                        chalKeys'[last'.tok].c = last'.ret.challenge
         ]_vars

C25_Witness ==
    /\ last.op = "Store"
    /\ last.res = "ok"
    /\ last.ret.challenge # NoChallenge
    /\ last.tok \in DOMAIN chalKeys
    /\ chalKeys[last.tok].c = last.ret.challenge
    /\ last.ret.challenge.Expires > now

\* C26: in the draft SQLite driver a MaxChallengesPerIp of 0 means no limit: Store never
\* returns ErrRateLimited
C26_ZeroMeansNoLimit ==
    (calc.op = "NewDriver" /\ calc.opts.on /\ calc.opts.MaxChallengesPerIP = 0)
        => ~(last.op = "Store" /\ last.res = "ratelimited")

\* C27: in the draft SQLite driver Store truncates the IP with the significant-bit
\* options as NewDriver normalised them (above 32 / 64 clamped, zero replaced by 32 / 64)
C27_StoreUsesNormalisedBits ==
    (calc.op = "NewDriver" /\ calc.opts.on) =>
        \A p \in Procs :
            (pc[p] = "insert" /\ loc[p].rl) =>
                <<loc[p].ipVer, loc[p].ipInt>> \in
                    { IpToInt64(ip, NormalisedOptions(calc.opts).IPv4SignificantBits,
                                NormalisedOptions(calc.opts).IPv6SignificantBits)
                        : ip \in Addrs }

\* C28: on the SQLite driver a CreateChallenge without client IP, or with rate limiting
\* disabled, stores the challenge (no backend failure, fresh tokens), and the new row is
\* unredeemed
C28_SqliteStoreWithoutRateLimit ==
    (/\ driver = "sqlite"
     /\ last.op = "Store"
     /\ last.ipNil \/ ~rlOpts.on)
        => /\ last.res = "ok"
           /\ \E r \in rows : r.challenge_token = last.tok /\ r.is_redeemed = 0

\* C29: after a successful Store(c), GetUnredeemedChallenge(c.ChallengeToken) called
\* before c expires and before c is redeemed returns a challenge with c's challenge
\* token, redeem token and params, and c's expiry to the second
C29_StoreFetchRoundTrip ==
    /\ \A tok \in (NInitRows + 1)..(NInitRows + MaxChallenges) :
          (stored[tok] # NeverStored /\ now < stored[tok] /\ wins[tok] = 0) =>
              /\ GetNow(tok) # NoChallenge
              /\ GetNow(tok).ChallengeToken = tok
              /\ GetNow(tok).RedeemToken = tok
              /\ Unix(GetNow(tok).Expires) = Unix(stored[tok])
    /\ \A ps \in ParamChoices : FetchedParams(driver, ps) = ps

C29_Witness ==
    /\ last.op = "Store"
    /\ last.res = "ok"
    /\ stored[last.tok] # NeverStored
    /\ now < stored[last.tok]
    /\ now > 0
    /\ wins[last.tok] = 0
    /\ GetNow(last.tok) = last.ret.challenge

\* the header value up to its first comma
LeftmostEntry(val) ==
    IF \E i \in 1..Len(val) : val[i] = ","
    THEN SubSeq(val, 1, (CHOOSE i \in 1..Len(val) :
                            val[i] = "," /\ \A j \in 1..(i - 1) : val[j] # ",") - 1)
    ELSE val

\* C30: the extractor of NewHeaderIPExtractor never panics; it returns nil when the
\* header is absent or its leftmost entry is not a valid IP, and otherwise the address
\* parsed from the leftmost entry of the comma-separated list
C30_HeaderExtractorLeftmost ==
    calc.op = "HeaderIPExtractor" =>
        /\ ~calc.panics
        /\ calc.addr = IF calc.present THEN ParseAddr(LeftmostEntry(calc.val))
                       ELSE NilAddr

\* without a comma in the header value the extractor behaves as stated
C30_SingleEntryParsed ==
    (calc.op = "HeaderIPExtractor" /\ \A i \in 1..Len(calc.val) : calc.val[i] # ",") =>
        /\ ~calc.panics
        /\ calc.addr = IF calc.present THEN ParseAddr(calc.val) ELSE NilAddr

\* a single valid address is returned parsed
C30_SingleEntryWitness ==
    /\ calc.op = "HeaderIPExtractor"
    /\ calc.addr = Addr4a

\* C31: a migration name is in table `migration` exactly when that migration's Apply
\* was committed, and it was committed at most once over all DoMigrations runs; a
\* failed Apply or a failed record insert leaves the database as it was, and
\* DoMigrations returns that error without having called Apply of a later migration
C31_RecordedIffApplied ==
    /\ [](calc.op = "DoMigrations" =>
            /\ \A m \in Migrations :
                  /\ calc.db.applied[m] <= 1
                  /\ (m \in calc.db.table) <=> (calc.db.applied[m] = 1)
            /\ (calc.pc = "returned" /\ calc.ret \notin {"none", "nil"}) =>
                  \A m \in calc.ranApply : m <= calc.at)
    /\ [][(calc.op = "DoMigrations" /\ calc.pc \in {"apply", "record"}
            /\ calc'.pc = "returned") =>
               /\ calc'.db = calc.db
               /\ calc'.ret \in {"apply failed", "insert failed"}
               /\ calc'.at = calc.i]_vars

\* the third run returns the error of the record insert of the second migration, with
\* the first migration applied and recorded once
C31_Witness ==
    /\ calc.op = "DoMigrations"
    /\ calc.runs = 3
    /\ calc.pc = "returned"
    /\ calc.ret = "insert failed"
    /\ calc.at = 2
    /\ calc.db.table = {1}
    /\ calc.db.applied[1] = 1

\* C32: VerifyChallengeSolutions returns a redeem token only after the hash of at least
\* one sub-challenge was computed and passed, whatever the stored parameters
C32_TokenOnlyAfterAHashCheck ==
    (calc.op = "Verify" /\ calc.res.err = "nil") => calc.res.hashed >= 1

\* with a stored Count of at least 1 every redeem token is preceded by Count hashes
C32_TokenAfterCountChecks ==
    (calc.op = "Verify" /\ calc.res.err = "nil" /\ params.Count >= 1) =>
        calc.res.hashed = params.Count

\* C33: for every significant-bit count n in range, two addresses of the same version
\* that differ in one of their first n bits get different keys from IpToInt64, and an
\* IPv4 and an IPv6 address never get the same key
C33_KeepsAllLeadingBits ==
    calc.op = "IpToInt64" =>
        /\ (calc.a.ver = calc.b.ver /\ ~SameLeadingBits(calc.a, calc.b, calc.bits))
              => calc.keyA # calc.keyB
        /\ calc.a.ver # calc.b.ver => calc.keyA # calc.keyB

\* the whole bytes of the count are kept: addresses that differ in one of their first
\* 8 * (n \div 8) bits get different keys, and the versions never share a key
C33_KeepsWholeBytes ==
    calc.op = "IpToInt64" =>
        /\ (calc.a.ver = calc.b.ver
             /\ ~SameLeadingBits(calc.a, calc.b, 8 * (calc.bits \div 8)))
              => calc.keyA # calc.keyB
        /\ calc.a.ver # calc.b.ver => calc.keyA # calc.keyB

\* the rate-limit keys of the addresses requests come from
LimitKeys ==
    {IpToInt64(ip, rlOpts.IPv4SignificantBits, rlOpts.IPv6SignificantBits) : ip \in Addrs}

\* whether a Store from an address with this key would be refused on these contents
WouldLimit(rs, limits, key, t) ==
    IF IsSqlite(driver)
    THEN Cardinality({r \in rs : /\ r.ip_version = key[1]
                                 /\ r.ip_significant_bits = key[2]
                                 /\ r.expires_ts > Unix(t - rlOpts.MaxChallengesWindow)})
            > rlOpts.MaxChallengesPerIP
    ELSE (IF key \in DOMAIN limits THEN limits[key].n + 1 ELSE 1)
            > rlOpts.MaxChallengesPerIP

\* C34: no step of a Store call changes whether a Store from an address with another
\* (version, integer) key would be rate-limited, on either driver
C34_LimitsAreIndependent ==
    [][\A p \in Procs :
         (/\ rlOpts.on
          /\ pc[p] # pc'[p]
          /\ \/ pc[p] \in StorePcs
             \/ pc[p] = "idle" /\ nextTok' # nextTok) =>
            \A key \in LimitKeys :
                (WouldLimit(rows', limitKeys', key, now')
                    # WouldLimit(rows, limitKeys, key, now)) =>
                  /\ pc[p] \in StorePcs => key = <<loc[p].ipVer, loc[p].ipInt>>
                  /\ pc[p] = "idle" => key = <<loc'[p].ipVer, loc'[p].ipInt>>]_vars

\* Stores from two addresses with different keys were both counted and let through
C34_Witness ==
    /\ driver = "redis"
    /\ last.op = "Store"
    /\ last.res = "ok"
    /\ last.rl
    /\ \E k1 \in DOMAIN limitKeys, k2 \in DOMAIN limitKeys :
          k1 # k2 /\ limitKeys[k1].passed = 1 /\ limitKeys[k2].passed = 1

C35_NoSqliteStoreSucceeds ==
    (IsSqlite(driver) /\ last.op = "Store" /\ last.rl) => last.res # "ok"

\* C36: on the Redis driver every rate-limit counter that no Store is about to put its
\* EXPIRE on carries a time-to-live that ends at most one window from now, also after
\* a Store that failed
C36_CountersCarryTTL ==
    driver = "redis" =>
        \A k \in DOMAIN limitKeys :
            (\A p \in Procs : ~(pc[p] = "expire" /\ k = <<loc[p].ipVer, loc[p].ipInt>>))
                => /\ limitKeys[k].ttl # NoTTL
                   /\ limitKeys[k].ttl <= now + rlOpts.MaxChallengesWindow

\* C37: after a UseRedeemToken that returned an error the redeem token is not consumed:
\* with no call in flight, a retry for a challenge that is still unexpired and that no
\* call has redeemed returns true
C37_ErrorLeavesTokenUsable ==
    (/\ last.op = "UseRedeemToken"
     /\ last.res = "err"
     /\ \A p \in Procs : pc[p] = "idle"
     /\ stored[last.tok] # NeverStored
     /\ now < stored[last.tok]
     /\ wins[last.tok] = 0) => UseNow(last.tok)

\* on the SQLite driver, and on Redis after a failed GETDEL, the retry returns true
C37_ErrorBeforeAnyWrite ==
    (/\ last.op = "UseRedeemToken"
     /\ last.res = "err"
     /\ \A p \in Procs : pc[p] = "idle"
     /\ stored[last.tok] # NeverStored
     /\ now < stored[last.tok]
     /\ wins[last.tok] = 0
     /\ (IsSqlite(driver) \/ last.tok \in DOMAIN redeemKeys)) => UseNow(last.tok)

C39_NoExecAfterClose ==
    [][ (daemon.pc = "exec" /\ daemon'.pc # "exec") => closing # "done" ]_vars

\* no pass removes a row once Close has closed the statements and the database
C39_NoRowDeletedAfterClose ==
    [][ closing = "done" => rows' = rows ]_vars

====
